---------------------------- MODULE Spec2Model ----------------------------
(***************************************************************************)
(* A model of spiderfire's runtime: the microtask queue of the event loop  *)
(* (runtime/src/event_loop/microtasks.rs), the fetch pipeline              *)
(* (runtime/src/globals/fetch/mod.rs) and the byte-range serving of the    *)
(* local schemes (runtime/src/globals/fetch/scheme.rs).                    *)
(*                                                                         *)
(* The parts (with the future-to-promise bridge, runtime/src/promise.rs,   *)
(* and FileReader, runtime/src/globals/file/reader.rs) do not share state. *)
(* Each has its own specification (SpecMicrotasks, SpecFetch, SpecRange,   *)
(* SpecBridge, SpecReader) whose Init parks the variables of the           *)
(* other parts at a fixed value.  SpecMicrotasksLive and SpecFetchLive add *)
(* the fairness of the scheduling, for the properties of progress.         *)
(***************************************************************************)
EXTENDS Integers, Sequences, FiniteSets, TLC

VARIABLES
    \* ---- MicrotaskQueue (microtasks.rs) ----
    queue,      \* MicrotaskQueue.queue: VecDeque<Microtask>, as task ids
    draining,   \* MicrotaskQueue.draining
    frames,     \* call stack of run_jobs activations: [call, pc, cur]
    hostEmpty,  \* the engine's view: TRUE after JobQueueIsEmpty, FALSE after JobQueueMayNotBeEmpty
    calls,      \* number of run_jobs calls made so far
    nextTask,   \* next fresh task id
    enqLog,     \* history: task ids in the order of their enqueue calls
    runLog,     \* history: task ids in the order they were run
    enqIn,      \* history: task -> run_jobs call whose drain was running it was enqueued from (0: none)
    ranIn,      \* history: task -> run_jobs call that ran it (0: not run)
    retRes,     \* history: run_jobs call -> "none" | "ok" | "err" | "skip"
    \* ---- fetch (globals/fetch/mod.rs) ----
    fpc,          \* position of the fetch: "idle" | "spawned" | "transport" | "file" | "done"
    req,          \* the Request of the fetch call
    redirections, \* `redirections` of the main_fetch activation that is waiting
    isNew,        \* `is_new` of the http_network_fetch activation that is waiting
    sent,         \* the outgoing request handed to the transport by that activation
    ready,        \* completion of the awaited operation, not yet seen by the task: NotReady, a response or a failure
    aborted,      \* the abort signal has a reason
    result,       \* the Response main_fetch returned to fetch_internal
    outcome,      \* the promise of fetch: "pending" | "resolved" | "rejected_abort" | "rejected_error"
    menu,         \* the responses the server side of the transport may give
    budget,       \* transport invocations left in this behaviour
    nSent,        \* history: number of transport invocations
    hopCalls,     \* history: transport invocations made for the current hop
    firstStatus,  \* history: status of the first transport response of the current hop
    via,          \* history: the redirect that led to the current hop
    abortPending, \* history: the signal was aborted while the transport had not responded
    cause,        \* history: why main_fetch produced a network error
    seen,         \* history: the last completion (response, bytes or failure) the task took
    \* ---- local schemes (globals/fetch/scheme.rs) ----
    rpc,        \* position of the local-scheme fetch: "start" | "read" | "done"
    rReq,       \* the request: scheme, method and Range header
    rBytes,     \* the bytes of the file or blob the URL names
    rResp,      \* the Response of scheme_fetch, or the panic it ended in
    \* ---- future_to_promise (promise.rs) ----
    hasFutures, \* event_loop.futures is Some: a future queue has been initialised
    inLocalSet, \* the thread runs inside a tokio LocalSet (spawn_local panics outside one)
    bCalls,     \* number of future_to_promise calls made so far
    bridge,     \* call -> [ret, task, handle, promise]: what the call returned and left behind
    \* ---- FileReader (globals/file/reader.rs) ----
    frState,    \* FileReader.state: "Empty" | "Loading" | "Done"
    frResult,   \* FileReader.result: "null", or the kind of value the last finished read stored
    frTask,     \* the read whose task has been spawned and has not run yet ("" for none)
    frLog       \* history: the read calls made, each with its outcome and whether a read was in progress

mtVars == <<queue, draining, frames, hostEmpty, calls, nextTask, enqLog, runLog, enqIn, ranIn, retRes>>

fVars == <<fpc, req, redirections, isNew, sent, ready, aborted, result, outcome, menu, budget,
           nSent, hopCalls, firstStatus, via, abortPending, cause, seen>>

rVars == <<rpc, rReq, rBytes, rResp>>

bVars == <<hasFutures, inLocalSet, bCalls, bridge>>

frVars == <<frState, frResult, frTask, frLog>>

vars == <<mtVars, fVars, rVars, bVars, frVars>>

-----------------------------------------------------------------------------
(* Bounds *)

\* Number of microtasks ever enqueued in one behaviour.
MaxTasks == 4
\* Number of run_jobs calls in one behaviour.
MaxCalls == 3

Tasks == 1..MaxTasks
Calls == 1..MaxCalls

-----------------------------------------------------------------------------
(* MicrotaskQueue *)

IsPrefix(s, t) == Len(s) <= Len(t) /\ SubSeq(t, 1, Len(s)) = s

\* The run_jobs call whose drain loop is running the current task (0: none).
ActiveDrain == IF frames = <<>> THEN 0 ELSE frames[Len(frames)].call

\* MicrotaskQueue::enqueue: push_back, then JobQueueMayNotBeEmpty.
QueuePush(q, t) == Append(q, t)

\* An enqueue that does not tell the engine: push_back only (sensitivity of C39).
EnqueueSilent(t) ==
    /\ queue' = QueuePush(queue, t)
    /\ UNCHANGED hostEmpty
    /\ nextTask' = nextTask + 1
    /\ enqLog' = Append(enqLog, t)
    /\ enqIn' = [enqIn EXCEPT ![t] = ActiveDrain]

Enqueue(t) ==
    /\ queue' = QueuePush(queue, t)
    /\ hostEmpty' = FALSE
    /\ nextTask' = nextTask + 1
    /\ enqLog' = Append(enqLog, t)
    /\ enqIn' = [enqIn EXCEPT ![t] = ActiveDrain]

\* enqueue called by the host (enqueue_promise_job, queueMicrotask) outside any drain.
HostEnqueue ==
    /\ frames = <<>>
    /\ nextTask <= MaxTasks
    /\ Enqueue(nextTask)
    /\ UNCHANGED <<draining, frames, calls, runLog, ranIn, retRes>>
    /\ UNCHANGED <<fVars, rVars, bVars, frVars>>

\* enqueue called by the microtask that is running.
TaskEnqueue ==
    /\ frames # <<>>
    /\ frames[Len(frames)].pc = "task"
    /\ nextTask <= MaxTasks
    /\ Enqueue(nextTask)
    /\ UNCHANGED <<draining, frames, calls, runLog, ranIn, retRes>>
    /\ UNCHANGED <<fVars, rVars, bVars, frVars>>

\* A run_jobs without the test of `draining`: every call starts a drain loop
\* (sensitivity of C18).
RunJobsEnterUnguarded ==
    /\ calls < MaxCalls
    /\ calls' = calls + 1
    /\ draining' = TRUE
    /\ frames' = Append(frames, [call |-> calls + 1, pc |-> "loop", cur |-> 0])
    /\ UNCHANGED <<queue, hostEmpty, nextTask, enqLog, runLog, enqIn, ranIn, retRes>>
    /\ UNCHANGED <<fVars, rVars, bVars, frVars>>

\* run_jobs, entry: `if self.draining { return Ok(()) }`, else `self.draining = true`.
RunJobsEnter ==
    /\ calls < MaxCalls
    /\ calls' = calls + 1
    /\ IF draining
       THEN /\ retRes' = [retRes EXCEPT ![calls + 1] = "skip"]
            /\ UNCHANGED <<draining, frames>>
       ELSE /\ draining' = TRUE
            /\ frames' = Append(frames, [call |-> calls + 1, pc |-> "loop", cur |-> 0])
            /\ UNCHANGED retRes
    /\ UNCHANGED <<queue, hostEmpty, nextTask, enqLog, runLog, enqIn, ranIn>>
    /\ UNCHANGED <<fVars, rVars, bVars, frVars>>

\* run_jobs called by the host, outside any drain.
HostRunJobs ==
    /\ frames = <<>>
    /\ RunJobsEnter

\* run_jobs called by the microtask that is running.
TaskRunJobs ==
    /\ frames # <<>>
    /\ frames[Len(frames)].pc = "task"
    /\ RunJobsEnter

\* `while let Some(microtask) = self.queue.pop_front()`: the head is taken and run.
PopFront ==
    /\ frames # <<>>
    /\ frames[Len(frames)].pc = "loop"
    /\ queue # <<>>
    /\ LET t == Head(queue) IN
        /\ queue' = Tail(queue)
        /\ frames' = [frames EXCEPT ![Len(frames)] = [@ EXCEPT !.pc = "task", !.cur = t]]
        /\ runLog' = Append(runLog, t)
        /\ ranIn' = [ranIn EXCEPT ![t] = frames[Len(frames)].call]
    /\ UNCHANGED <<draining, hostEmpty, calls, nextTask, enqLog, enqIn, retRes>>
    /\ UNCHANGED <<fVars, rVars, bVars, frVars>>

\* What run_jobs does with the result of `microtask.run(cx)`: the `?` of
\* `microtask.run(cx)?` returns the error from run_jobs at once; the statements
\* after the loop are not reached.
AfterRun(ok) ==
    IF ok
    THEN /\ frames' = [frames EXCEPT ![Len(frames)] = [@ EXCEPT !.pc = "loop", !.cur = 0]]
         /\ UNCHANGED retRes
    ELSE /\ frames' = SubSeq(frames, 1, Len(frames) - 1)
         /\ retRes' = [retRes EXCEPT ![frames[Len(frames)].call] = "err"]

\* The running microtask returns, with Ok or with an error report.
TaskReturn ==
    /\ frames # <<>>
    /\ frames[Len(frames)].pc = "task"
    /\ \E ok \in BOOLEAN : AfterRun(ok)
    /\ UNCHANGED <<queue, draining, hostEmpty, calls, nextTask, enqLog, runLog, enqIn, ranIn>>
    /\ UNCHANGED <<fVars, rVars, bVars, frVars>>

\* The loop ends on an empty queue: `self.draining = false; JobQueueIsEmpty(..); Ok(())`.
LoopExit ==
    /\ frames # <<>>
    /\ frames[Len(frames)].pc = "loop"
    /\ queue = <<>>
    /\ draining' = FALSE
    /\ hostEmpty' = TRUE
    /\ retRes' = [retRes EXCEPT ![frames[Len(frames)].call] = "ok"]
    /\ frames' = SubSeq(frames, 1, Len(frames) - 1)
    /\ UNCHANGED <<queue, calls, nextTask, enqLog, runLog, enqIn, ranIn>>
    /\ UNCHANGED <<fVars, rVars, bVars, frVars>>

MtInit ==
    /\ queue = <<>>
    /\ draining = FALSE
    /\ frames = <<>>
    /\ hostEmpty = TRUE
    /\ calls = 0
    /\ nextTask = 1
    /\ enqLog = <<>>
    /\ runLog = <<>>
    /\ enqIn = [t \in Tasks |-> 0]
    /\ ranIn = [t \in Tasks |-> 0]
    /\ retRes = [c \in Calls |-> "none"]

MtNext ==
    \/ HostEnqueue
    \/ TaskEnqueue
    \/ HostRunJobs
    \/ TaskRunJobs
    \/ PopFront
    \/ TaskReturn
    \/ LoopExit

-----------------------------------------------------------------------------
(* fetch: headers, URLs, bodies *)

\* `if redirections >= 20` in http_redirect_fetch.
RedirectCap == 20

\* F(e) with e evaluated once, before F is applied: the value a `let` of the
\* source binds, however often the code that follows reads it.
Then(e, F(_)) == CHOOSE v \in {F(x) : x \in {e}} : TRUE

\* The header names the pipeline reads or writes, lower case as http::HeaderName keeps them.
HeaderNames ==
    {"accept", "accept-encoding", "accept-language", "access-control-allow-headers",
     "cache-control", "content-encoding", "content-language", "content-length",
     "content-location", "content-type", "host", "if-match", "if-modified-since",
     "if-none-match", "if-range", "if-unmodified-since", "location", "pragma", "range",
     "referer", "referrer-policy", "set-cookie", "set-cookie2", "user-agent", "x-trace"}

\* http::HeaderMap: name -> the values appended under it, in order.
NoHeaders == [n \in HeaderNames |-> <<>>]

HeadersOf(pairs) ==
    [n \in HeaderNames |-> IF n \in DOMAIN pairs THEN pairs[n] ELSE <<>>]

\* HeaderMap::contains_key
ContainsKey(h, n) == h[n] # <<>>

\* HeaderMap::append
HeaderAppend(h, n, v) == [h EXCEPT ![n] = Append(@, v)]

\* remove_all_header_entries
RemoveAllHeaderEntries(h, n) == [h EXCEPT ![n] = <<>>]

\* An upper bound that counts the values (sensitivity of C26).
SizeHintUpperCounting(h, n) == Len(h[n])

\* ValueIter::size_hint().1 of `get_all(name).into_iter()`: Some(0) for no value,
\* Some(1) for exactly one, None for more than one.  -1 stands for None.
SizeHintUpper(h, n) ==
    IF Len(h[n]) = 0 THEN 0 ELSE IF Len(h[n]) = 1 THEN 1 ELSE -1

\* FORBIDDEN_RESPONSE_HEADERS
ForbiddenResponseHeaders == {"set-cookie", "set-cookie2"}

\* BAD_PORTS
BadPorts ==
    {1, 7, 9, 11, 13, 15, 17, 19, 20, 21, 22, 23, 25, 37, 42, 43, 53, 69, 77, 79, 87, 95,
     101, 102, 103, 104, 109, 110, 111, 113, 115, 117, 119, 123, 135, 137, 139, 143, 161,
     179, 389, 427, 465, 512, 513, 514, 515, 526, 530, 531, 532, 540, 548, 554, 556, 563,
     587, 601, 636, 989, 990, 993, 995, 1719, 1720, 1723, 2049, 3659, 4045, 5060, 5061,
     6000, 6566, 6665, 6666, 6667, 6668, 6669, 6697, 10080}

\* SCHEMES
Schemes == {"about", "blob", "data", "file"}

\* url::Url, as far as the pipeline looks at it.  port = 0 is Url::port() = None.
Url(scheme, creds, host, port, path) ==
    [scheme |-> scheme, creds |-> creds, host |-> host, port |-> port, path |-> path]

NoUrl == Url("", FALSE, "", 0, "")

\* Url::options().base_url(base).parse(location): the literal Location values the
\* model's server sends.  An absolute URL parses to itself; a path is resolved
\* against the base (which keeps the base's scheme, userinfo, host and port); the
\* value "http://[" does not parse (NoUrl).
UrlParse(base, location) ==
    CASE location = "http://b.test/"        -> Url("http", FALSE, "b.test", 0, "/")
      [] location = "https://b.test:8443/x" -> Url("https", FALSE, "b.test", 8443, "/x")
      [] location = "http://b.test:25/"     -> Url("http", FALSE, "b.test", 25, "/")
      [] location = "https://u:p@b.test/"   -> Url("https", TRUE, "b.test", 0, "/")
      [] location = "ftp://b.test/f"        -> Url("ftp", FALSE, "b.test", 0, "/f")
      [] location = "/next"                 -> [base EXCEPT !.path = "/next"]
      [] OTHER                              -> NoUrl

\* FetchBody: none, or bytes of a known length (FetchBodyInner), or a stream: the
\* pipeline of mod.rs asks is_not_stream() of the body, so a stream body is one
\* of the bodies it is written for.
Body(kind, len) == [kind |-> kind, len |-> len]

\* FetchBody::default
NoBody == Body("none", 0)

\* FetchBody::is_none
IsNone(body) == body.kind = "none"

\* FetchBody::is_not_stream, called by mod.rs: the complement of is_stream.
IsNotStream(body) == body.kind \in {"none", "bytes"}

\* FetchBody::len: -1 stands for None.
BodyLen(body) == IF body.kind = "bytes" THEN body.len ELSE -1

\* A Response.  status = 0 is None; url = NoUrl is None.
Response(kind, status, url, headers, body) ==
    [kind |-> kind, status |-> status, url |-> url, headers |-> headers,
     headersKind |-> "immutable", body |-> body, redirected |-> FALSE,
     range_requested |-> FALSE]

\* network_error
NetworkError == Response("error", 0, NoUrl, NoHeaders, NoBody)

\* The value of `ready` while the awaited operation has not completed.
NotReady == [tag |-> "none", status |-> 0, headers |-> NoHeaders, body |-> NoBody]

\* The failure of the awaited operation: a transport error, an io error.
Failure == [tag |-> "failure", status |-> 0, headers |-> NoHeaders, body |-> NoBody]

\* The bytes tokio::fs::read gives.
FileBytes(len) ==
    [tag |-> "bytes", status |-> 0, headers |-> NoHeaders, body |-> [kind |-> "bytes", len |-> len]]

\* StatusCode::is_redirection on Some(status)
IsRedirection(status) == status >= 300 /\ status < 400

-----------------------------------------------------------------------------
(* fetch: the synchronous stretches of main_fetch between two awaits *)

\* The outgoing request of http_network_fetch when none has been built.
NoOutgoing == [method |-> "", url |-> NoUrl, headers |-> NoHeaders, body |-> NoBody, cache |-> ""]

\* Where a stretch ends: main_fetch returned `resp` to fetch_internal ("done"), or
\* the task awaits the transport or the file read at depth n.
Done(r, resp, c) ==
    [tag |-> "done", req |-> r, n |-> 0, isNew |-> FALSE, out |-> NoOutgoing,
     resp |-> resp, cause |-> IF resp.kind = "error" THEN c ELSE ""]

Await(tag, r, n, new, out) ==
    [tag |-> tag, req |-> r, n |-> n, isNew |-> new, out |-> out,
     resp |-> NetworkError, cause |-> ""]

\* A main_fetch that taints a no-cors request as opaque (sensitivity of C36).
TaintHttpOpaqueForNoCors(r) == IF r.mode = "no-cors" THEN "opaque" ELSE "cors"

\* A main_fetch that never taints a request as cors (sensitivity of C27).
TaintHttpAlwaysBasic(r) == "basic"

\* main_fetch: `taint` of an activation that took the http/https branch.
TaintHttp(r) == IF r.mode = "no-cors" THEN "basic" ELSE "cors"

\* main_fetch: `taint` at the end of the dispatch (ResponseTaint::default() is Basic).
TaintOf(r) ==
    IF r.mode # "same-origin" /\ r.url.scheme \in {"https", "http"}
    THEN TaintHttp(r)
    ELSE "basic"

RemoveHeaders(h, names) == [n \in HeaderNames |-> IF n \in names THEN <<>> ELSE h[n]]

\* main_fetch, ResponseTaint::Cors arm: the names collected in `to_remove`.
CorsToRemove(r, h) ==
    LET allowed == h["access-control-allow-headers"]
        allowsAll == \E i \in 1..Len(allowed) : allowed[i] = "*"
    IN  IF r.credentials # "include" /\ allowsAll
        THEN {n \in HeaderNames : ContainsKey(h, n) /\ SizeHintUpper(h, n) = -1}
        ELSE {n \in HeaderNames : ContainsKey(h, n) /\ \E i \in 1..Len(allowed) : allowed[i] = n}

\* A body nulling that looks at the status alone (sensitivity of C34).
NullBodyByStatusOnly(r, resp, opaque) ==
    ~opaque /\ resp.status \in {101, 103, 204, 205, 304}

\* main_fetch: `if !opaque_redirect && (HEAD || CONNECT || 101 || 103 || 204 || 205 || 304)`.
NullBody(r, resp, opaque) ==
    ~opaque /\ (r.method \in {"HEAD", "CONNECT"} \/ resp.status \in {101, 103, 204, 205, 304})

\* A filtering whose basic arm clears the whole header store (sensitivity of C13).
FilterResponseClearingBasic(r, resp, opaque, taint) ==
    IF opaque \/ taint # "cors"
    THEN [resp EXCEPT !.kind = IF opaque THEN "opaqueredirect" ELSE "basic",
                      !.url = IF opaque THEN NoUrl ELSE @,
                      !.status = IF opaque THEN 0 ELSE @,
                      !.body = IF opaque THEN NoBody ELSE @,
                      !.headers = NoHeaders]
    ELSE [resp EXCEPT !.kind = "cors",
                      !.headers = RemoveHeaders(RemoveHeaders(@, CorsToRemove(r, @)),
                                                ForbiddenResponseHeaders)]

\* A filtering whose cors arm forgets the forbidden response headers
\* (sensitivity of C12).
FilterResponseKeepingCookies(r, resp, opaque, taint) ==
    IF opaque
    THEN [resp EXCEPT !.kind = "opaqueredirect", !.url = NoUrl, !.status = 0,
                      !.body = NoBody, !.headers = NoHeaders]
    ELSE CASE taint = "basic" ->
                [resp EXCEPT !.kind = "basic",
                             !.headers = RemoveHeaders(@, ForbiddenResponseHeaders)]
           [] taint = "cors" ->
                [resp EXCEPT !.kind = "cors",
                             !.headers = RemoveHeaders(@, CorsToRemove(r, @))]
           [] OTHER ->
                [resp EXCEPT !.kind = "opaque", !.url = NoUrl, !.status = 0,
                             !.body = NoBody, !.headers = NoHeaders]

\* main_fetch, final filtering by opaque_redirect and taint.  status_text goes with status.
FilterResponse(r, resp, opaque, taint) ==
    IF opaque
    THEN [resp EXCEPT !.kind = "opaqueredirect", !.url = NoUrl, !.status = 0,
                      !.body = NoBody, !.headers = NoHeaders]
    ELSE CASE taint = "basic" ->
                [resp EXCEPT !.kind = "basic",
                             !.headers = RemoveHeaders(@, ForbiddenResponseHeaders)]
           [] taint = "cors" ->
                [resp EXCEPT !.kind = "cors",
                             !.headers = RemoveHeaders(RemoveHeaders(@, CorsToRemove(r, @)),
                                                       ForbiddenResponseHeaders)]
           [] OTHER ->
                [resp EXCEPT !.kind = "opaque", !.url = NoUrl, !.status = 0,
                             !.body = NoBody, !.headers = NoHeaders]

\* A tail that never takes the flag back: `redirected` stays set on the way up
\* (sensitivity of C30).
MainFetchTailKeepingFlag(r, resp, opaque, taint, n) ==
    LET redirected == n > 0 IN
    IF redirected \/ resp.kind = "error"
    THEN [resp EXCEPT !.redirected = redirected \/ @]
    ELSE LET r1 == [resp EXCEPT !.url = IF @ = NoUrl THEN r.url ELSE @] IN
         IF /\ ~opaque
            /\ taint = "opaque"
            /\ r1.status = 206
            /\ r1.range_requested
            /\ ~ContainsKey(r1.headers, "range")
         THEN [NetworkError EXCEPT !.url = r1.url]
         ELSE LET r2 == IF NullBody(r, r1, opaque) THEN [r1 EXCEPT !.body = NoBody] ELSE r1
              IN  FilterResponse(r, r2, opaque, taint)

\* main_fetch from `let redirected = redirections > 0` to its end.
MainFetchTail(r, resp, opaque, taint, n) ==
    LET redirected == n > 0 IN
    IF redirected \/ resp.kind = "error"
    THEN [resp EXCEPT !.redirected = redirected]
    ELSE LET r1 == [resp EXCEPT !.url = IF @ = NoUrl THEN r.url ELSE @] IN
         IF /\ ~opaque
            /\ taint = "opaque"
            /\ r1.status = 206
            /\ r1.range_requested
            /\ ~ContainsKey(r1.headers, "range")
         THEN [NetworkError EXCEPT !.url = r1.url]
         ELSE LET r2 == IF NullBody(r, r1, opaque) THEN [r1 EXCEPT !.body = NoBody] ELSE r1
              IN  FilterResponse(r, r2, opaque, taint)

\* The cause of a network error that the tail itself produced (the range-reuse guard).
TailCause(resp, out, c) ==
    IF out.kind = "error" /\ resp.kind # "error" THEN "range-reuse" ELSE c

RECURSIVE ReturnTo(_, _, _, _)
\* main_fetch at depth n returns `resp`.  At depth 0 the caller is fetch_internal;
\* at depth n > 0 it is http_redirect_fetch, which returns it to http_fetch, which
\* pairs it with opaque = false for the main_fetch at depth n - 1, which runs its tail.
ReturnTo(r, resp, c, n) ==
    IF n = 0
    THEN Done(r, resp, c)
    ELSE Then(MainFetchTail(r, resp, FALSE, TaintHttp(r), n - 1),
              LAMBDA out : ReturnTo(r, out, TailCause(resp, out, c), n - 1))

\* The main_fetch at depth n has its `response` and `opaque_redirect`, and runs its tail.
FromTail(r, resp, opaque, c, n) ==
    Then(MainFetchTail(r, resp, opaque, TaintOf(r), n),
         LAMBDA out : ReturnTo(r, out, TailCause(resp, out, c), n))

\* IF_MODIFIED_SINCE, IF_NONE_MATCH, IF_UNMODIFIED_SINCE, IF_MATCH, IF_RANGE
ConditionalHeaders ==
    {"if-modified-since", "if-none-match", "if-unmodified-since", "if-match", "if-range"}

\* DEFAULT_USER_AGENT
DefaultUserAgent == "Spiderfire/VERSION"

\* http_network_fetch: `length`, -1 for None.
ContentLength(r) ==
    IF BodyLen(r.body) # -1 THEN BodyLen(r.body)
    ELSE IF IsNone(r.body) /\ r.method \in {"POST", "PUT"} THEN 0
    ELSE -1

\* http_network_fetch: the Host value.
HostValue(url) ==
    IF url.port # 0 THEN url.host \o ":" \o ToString(url.port) ELSE url.host

\* http_network_fetch: `if let Some(length) = length { headers.append(CONTENT_LENGTH, ..) }`.
AppendContentLength(r, h) ==
    IF ContentLength(r) # -1
    THEN HeaderAppend(h, "content-length", ToString(ContentLength(r))) ELSE h

\* http_network_fetch: `if let Referrer::Url(url) = request.referrer`.
AppendReferer(r, h) ==
    IF r.referrer \notin {"no-referrer", "client"}
    THEN HeaderAppend(h, "referer", r.referrer) ELSE h

\* http_network_fetch: `if !headers.contains_key(USER_AGENT)`.
AppendUserAgent(h) ==
    IF ~ContainsKey(h, "user-agent")
    THEN HeaderAppend(h, "user-agent", DefaultUserAgent) ELSE h

\* An http_network_fetch that leaves the cache mode of a conditional request
\* alone (sensitivity of C33).
CacheModeUnchanged(r, h) == r.cache

\* http_network_fetch: the cache mode of the clone after the conditional-header test.
CacheMode(r, h) ==
    IF r.cache = "default" /\ \E c \in ConditionalHeaders : ContainsKey(h, c)
    THEN "no-store" ELSE r.cache

\* http_network_fetch: `if request.cache == NoCache && !headers.contains_key(CACHE_CONTROL)`.
AppendMaxAge(cache, h) ==
    IF cache = "no-cache" /\ ~ContainsKey(h, "cache-control")
    THEN HeaderAppend(h, "cache-control", "max-age=0") ELSE h

\* An http_network_fetch that adds no Pragma header (sensitivity of C32).
AppendPragmaNever(cache, h) == h

\* http_network_fetch: `if request.cache == NoStore || request.cache == Reload`, Pragma.
AppendPragma(cache, h) ==
    IF cache \in {"no-store", "reload"} /\ ~ContainsKey(h, "pragma")
    THEN HeaderAppend(h, "pragma", "no-cache") ELSE h

\* http_network_fetch: the same, Cache-Control.
AppendNoCache(cache, h) ==
    IF cache \in {"no-store", "reload"} /\ ~ContainsKey(h, "cache-control")
    THEN HeaderAppend(h, "cache-control", "no-cache") ELSE h

\* http_network_fetch: `if headers.contains_key(RANGE)`.
AppendAcceptEncoding(h) ==
    IF ContainsKey(h, "range")
    THEN HeaderAppend(h, "accept-encoding", "identity") ELSE h

\* http_network_fetch: `if !headers.contains_key(HOST)`.
AppendHost(r, h) ==
    IF ~ContainsKey(h, "host")
    THEN HeaderAppend(h, "host", HostValue(r.url)) ELSE h

\* http_network_fetch up to `client.request(request.request)`: the clone of the
\* request with the normalised headers and cache mode, the steps in source order.
Outgoing(r) ==
    Then(AppendContentLength(r, r.headers), LAMBDA h1 :
    Then(AppendReferer(r, h1), LAMBDA h2 :
    Then(AppendUserAgent(h2), LAMBDA h3 :
    Then(CacheMode(r, h3), LAMBDA cache :
    Then(AppendMaxAge(cache, h3), LAMBDA h4 :
    Then(AppendPragma(cache, h4), LAMBDA h5 :
    Then(AppendNoCache(cache, h5), LAMBDA h6 :
    Then(AppendAcceptEncoding(h6), LAMBDA h7 :
    Then(AppendHost(r, h7), LAMBDA h8 :
        [method |-> r.method, url |-> r.url, headers |-> h8, body |-> r.body,
         cache |-> cache])))))))))

\* An http_network_fetch that normalises the Request itself instead of a clone
\* (sensitivity of C31).
HttpNetworkFetchStartInPlace(r, new, n) ==
    Then(Outgoing(r), LAMBDA out :
        IF out.cache = "only-if-cached"
        THEN FromTail(r, NetworkError, FALSE, "cache-only-miss", n)
        ELSE Await("transport", [r EXCEPT !.headers = out.headers, !.cache = out.cache],
                   n, new, out))

\* An http_network_fetch without the test of `cache == OnlyIfCached`
\* (sensitivity of C20).
HttpNetworkFetchStartIgnoringCache(r, new, n) ==
    Then(Outgoing(r), LAMBDA out : Await("transport", r, n, new, out))

\* http_network_fetch from its start to the await of `client.request`, or to the
\* network error of `cache == OnlyIfCached`, which http_fetch passes on.
HttpNetworkFetchStart(r, new, n) ==
    Then(Outgoing(r), LAMBDA out :
        IF out.cache = "only-if-cached"
        THEN FromTail(r, NetworkError, FALSE, "cache-only-miss", n)
        ELSE Await("transport", r, n, new, out))

\* DataUrl::process and decode_to_vec on the data: URLs of the model: the decoded
\* length, or -1 when either fails.
DataUrlDecode(url) ==
    CASE url.path = "text/plain,hi"        -> 2
      [] url.path = "text/plain;base64,@@" -> -1
      [] OTHER                             -> -1

\* The `{type}/{subtype}` of the data: URLs of the model.
DataUrlMime(url) == "text/plain"

\* Response::new_from_bytes: a 200 response over a buffered body.
ResponseFromBytes(len, url, headers) == Response("default", 200, url, headers, Body("bytes", len))

\* scheme_fetch (mod.rs) for the schemes it serves without an await.
SchemeFetchSync(url) ==
    CASE url.scheme = "about" /\ url.path = "blank" ->
            ResponseFromBytes(0, url, HeadersOf("content-type" :> <<"text/html;charset=UTF-8">>))
      [] url.scheme = "data" ->
            IF DataUrlDecode(url) = -1
            THEN NetworkError
            ELSE ResponseFromBytes(DataUrlDecode(url), url,
                                   HeadersOf("content-type" :> <<DataUrlMime(url)>>))
      [] OTHER -> NetworkError

\* A port check whose list lacks port 25 (sensitivity of C5).
BlockedPortWithoutSmtp(url) == url.port # 0 /\ url.port \in (BadPorts \ {25})

\* main_fetch: `if let Some(port) = request.url.port() { if BAD_PORTS.contains(&port) ..`.
BlockedPort(url) == url.port # 0 /\ url.port \in BadPorts

\* A main_fetch that sends a no-cors request whatever its redirect mode
\* (sensitivity of C21).
MainFetchEnterWithoutNoCorsCheck(r, n) ==
    LET scheme == r.url.scheme IN
    IF r.mode = "same-origin"
    THEN FromTail(r, NetworkError, FALSE, "same-origin", n)
    ELSE IF scheme \in Schemes
    THEN IF scheme = "file"
         THEN Await("file", r, n, FALSE, NoOutgoing)
         ELSE FromTail(r, SchemeFetchSync(r.url), FALSE,
                       IF scheme = "data" THEN "data-url" ELSE "bad-scheme", n)
    ELSE IF scheme = "https" \/ scheme = "http"
    THEN IF BlockedPort(r.url)
         THEN ReturnTo(r, NetworkError, "blocked-port", n)
         ELSE HttpNetworkFetchStart(r, FALSE, n)
    ELSE FromTail(r, NetworkError, FALSE, "bad-scheme", n)

\* main_fetch from its start to its first await or its return.
MainFetchEnter(r, n) ==
    LET scheme == r.url.scheme IN
    IF r.mode = "same-origin"
    THEN FromTail(r, NetworkError, FALSE, "same-origin", n)
    ELSE IF scheme \in Schemes
    THEN IF scheme = "file"
         THEN Await("file", r, n, FALSE, NoOutgoing)
         ELSE FromTail(r, SchemeFetchSync(r.url), FALSE,
                       IF scheme = "data" THEN "data-url" ELSE "bad-scheme", n)
    ELSE IF scheme = "https" \/ scheme = "http"
    THEN IF BlockedPort(r.url)
         THEN ReturnTo(r, NetworkError, "blocked-port", n)
         ELSE IF r.mode = "no-cors" /\ r.redirect # "follow"
         THEN ReturnTo(r, NetworkError, "no-cors-redirect", n)
         ELSE HttpNetworkFetchStart(r, FALSE, n)
    ELSE FromTail(r, NetworkError, FALSE, "bad-scheme", n)

\* A cap that is off by one: `redirections > 20` (sensitivity of C4).
RedirectCapOffByOne(n) == n > RedirectCap

\* A redirect handler without a cap (sensitivity of C24).
RedirectCapNever(n) == FALSE

\* http_redirect_fetch: `if redirections >= 20`.
RedirectCapReached(n) == n >= RedirectCap

\* http_redirect_fetch: the condition of the method/body downgrade.
Downgrade(status, method) ==
    \/ (status = 301 \/ status = 302) /\ method = "POST"
    \/ status = 303 /\ (method # "GET" \/ method # "HEAD")

\* CONTENT_ENCODING, CONTENT_LANGUAGE, CONTENT_LOCATION, CONTENT_TYPE
ContentHeaders == {"content-encoding", "content-language", "content-location", "content-type"}

\* A downgrade that forgets to clear the body and keeps Content-Type
\* (sensitivity of C6).
ApplyDowngradeKeepingBody(r) ==
    [r EXCEPT !.method = "GET",
              !.headers = RemoveHeaders(@, ContentHeaders \ {"content-type"})]

\* http_redirect_fetch: the body of the downgrade.
ApplyDowngrade(r) ==
    [r EXCEPT !.method = "GET", !.body = NoBody,
              !.headers = RemoveHeaders(@, ContentHeaders)]

\* ReferrerPolicy::from_str succeeds on these values.
ReferrerPolicies ==
    {"no-referrer", "no-referrer-when-downgrade", "origin", "origin-when-cross-origin",
     "same-origin", "strict-origin", "strict-origin-when-cross-origin", "unsafe-url"}

RECURSIVE LastPolicy(_, _)
\* http_redirect_fetch: the Referrer-Policy values scanned in reverse from index i;
\* the first non-empty value that parses, or "" for None.
LastPolicy(values, i) ==
    IF i = 0 THEN ""
    ELSE IF values[i] # "" /\ values[i] \in ReferrerPolicies THEN values[i]
    ELSE LastPolicy(values, i - 1)

\* A handler that moves the request to the target and keeps no history
\* (sensitivity of C29).
RecordRedirectUrlOnly(r, location) == [r EXCEPT !.url = location]

\* http_redirect_fetch: `request.locations.push(location.clone()); request.url = location`.
RecordRedirect(r, location) == [r EXCEPT !.locations = Append(@, location), !.url = location]

\* A redirect handler that records the target in the history before it checks
\* it (sensitivity of C28).
HttpRedirectFetchRecordingFirst(r, resp, taint, n) ==
    LET upper == SizeHintUpper(resp.headers, "location") IN
    IF upper = 0 THEN FromTail(r, resp, FALSE, "", n)
    ELSE IF upper = -1 THEN FromTail(r, NetworkError, FALSE, "redirect-location", n)
    ELSE LET location == UrlParse(resp.url, resp.headers["location"][1])
             r0 == [r EXCEPT !.locations = Append(@, location)]
         IN
         IF location = NoUrl
         THEN FromTail(r, NetworkError, FALSE, "redirect-location", n)
         ELSE IF ~(location.scheme = "https" \/ location.scheme = "http")
         THEN FromTail(r0, NetworkError, FALSE, "redirect-scheme", n)
         ELSE IF RedirectCapReached(n)
         THEN FromTail(r0, NetworkError, FALSE, "redirect-cap", n)
         ELSE IF taint = "cors" /\ location.creds
         THEN FromTail(r0, NetworkError, FALSE, "redirect-credentials", n)
         ELSE IF resp.status # 303 /\ ~IsNone(r.body) /\ ~IsNotStream(r.body)
         THEN FromTail(r0, NetworkError, FALSE, "redirect-stream", n)
         ELSE LET r1 == IF Downgrade(resp.status, r.method) THEN ApplyDowngrade(r0) ELSE r0
                  r2 == [r1 EXCEPT !.url = location]
                  policy == LastPolicy(resp.headers["referrer-policy"],
                                       Len(resp.headers["referrer-policy"]))
                  r3 == IF policy # "" THEN [r2 EXCEPT !.referrer_policy = policy] ELSE r2
              IN  Then(r3, LAMBDA next : MainFetchEnter(next, n + 1))

\* http_redirect_fetch.
HttpRedirectFetch(r, resp, taint, n) ==
    LET upper == SizeHintUpper(resp.headers, "location") IN
    IF upper = 0 THEN FromTail(r, resp, FALSE, "", n)
    ELSE IF upper = -1 THEN FromTail(r, NetworkError, FALSE, "redirect-location", n)
    ELSE LET location == UrlParse(resp.url, resp.headers["location"][1]) IN
         IF location = NoUrl
         THEN FromTail(r, NetworkError, FALSE, "redirect-location", n)
         ELSE IF ~(location.scheme = "https" \/ location.scheme = "http")
         THEN FromTail(r, NetworkError, FALSE, "redirect-scheme", n)
         ELSE IF RedirectCapReached(n)
         THEN FromTail(r, NetworkError, FALSE, "redirect-cap", n)
         ELSE IF taint = "cors" /\ location.creds
         THEN FromTail(r, NetworkError, FALSE, "redirect-credentials", n)
         ELSE IF resp.status # 303 /\ ~IsNone(r.body) /\ ~IsNotStream(r.body)
         THEN FromTail(r, NetworkError, FALSE, "redirect-stream", n)
         ELSE LET r1 == IF Downgrade(resp.status, r.method) THEN ApplyDowngrade(r) ELSE r
                  r2 == RecordRedirect(r1, location)
                  policy == LastPolicy(resp.headers["referrer-policy"],
                                       Len(resp.headers["referrer-policy"]))
                  r3 == IF policy # "" THEN [r2 EXCEPT !.referrer_policy = policy] ELSE r2
              IN  Then(r3, LAMBDA next : MainFetchEnter(next, n + 1))

\* An http_fetch that hands a redirect to the redirect handler in manual mode too
\* (sensitivity of C14).
HttpFetchAfterFollowingManual(r, resp, c, n) ==
    IF resp.status # 0 /\ IsRedirection(resp.status)
    THEN CASE r.redirect = "error" -> FromTail(r, NetworkError, FALSE, "redirect-error", n)
           [] OTHER                -> HttpRedirectFetch(r, resp, TaintHttp(r), n)
    ELSE FromTail(r, resp, FALSE, c, n)

\* http_fetch after `http_network_fetch(..).await`.
HttpFetchAfter(r, resp, c, n) ==
    IF resp.status # 0 /\ IsRedirection(resp.status)
    THEN CASE r.redirect = "follow" -> HttpRedirectFetch(r, resp, TaintHttp(r), n)
           [] r.redirect = "error"  -> FromTail(r, NetworkError, FALSE, "redirect-error", n)
           [] OTHER                 -> FromTail(r, resp, TRUE, "", n)
    ELSE FromTail(r, resp, FALSE, c, n)

\* A retry condition that does not look at is_new (sensitivity of C10).
RetryMisdirectedAlways(status, new, body) == status = 421 /\ IsNotStream(body)

\* http_network_fetch: `status == 421 && !is_new && req.body.is_not_stream()`.
RetryMisdirected(status, new, body) == status = 421 /\ ~new /\ IsNotStream(body)

\* Response::new: the transport's response with the request URL.
ResponseNew(t, url) == Response("default", t.status, url, t.headers, t.body)

\* http_network_fetch after `client.request(..).await` gave `t`, and what follows.
HttpNetworkFetchAfter(r, t, new, n, out) ==
    IF t.tag = "failure"
    THEN HttpFetchAfter(r, NetworkError, "transport-failure", n)
    ELSE Then([ResponseNew(t, r.url) EXCEPT
                  !.range_requested = ContainsKey(out.headers, "range")],
              LAMBDA resp :
                 IF resp.status = 407 /\ ~r.client_window
                 THEN HttpFetchAfter(r, NetworkError, "proxy-authentication", n)
                 ELSE IF RetryMisdirected(resp.status, new, r.body)
                 THEN HttpNetworkFetchStart(r, TRUE, n)
                 ELSE HttpFetchAfter(r, resp, "", n))

\* scheme_fetch (mod.rs), "file" arm, after `read(path).await` gave `t`.
FileFetchAfter(r, t, n) ==
    IF t.tag = "failure"
    THEN FromTail(r, NetworkError, FALSE, "file-read", n)
    ELSE FromTail(r, ResponseFromBytes(t.body.len, r.url, NoHeaders), FALSE, "", n)

-----------------------------------------------------------------------------
(* fetch: the task, the transport and the abort signal *)

\* Number of responses the transport gives in one behaviour of SpecFetch.
MaxResponses == 3

\* fetch: Accept and Accept-Language are appended when absent (one locale, en-US).
AddAcceptHeaders(r) ==
    LET h1 == IF ~ContainsKey(r.headers, "accept")
              THEN HeaderAppend(r.headers, "accept", "*/*") ELSE r.headers
        h2 == IF ~ContainsKey(h1, "accept-language")
              THEN HeaderAppend(h1, "accept-language", "en-US") ELSE h1
    IN  [r EXCEPT !.headers = h2]

\* A fetch_internal that hands every Response to the caller (sensitivity of C9).
FetchInternalResolvesAll(resp) == "resolved"

\* A fetch_internal whose result settles nothing (sensitivity of C25).
FetchInternalLeavesPending(resp) == "pending"

\* fetch_internal: what becomes of the Response main_fetch returned.
FetchInternalOutcome(resp) ==
    IF resp.kind = "error" THEN "rejected_error" ELSE "resolved"

\* futures::future::select(send, signal): `send` is polled first and wins when it
\* is ready; `signal` is polled only when `send` is pending.
Select(sendDone, signalReady) ==
    IF sendDone THEN "left" ELSE IF signalReady THEN "right" ELSE "pending"

\* A race whose loser keeps running: `send` is not dropped when the signal wins
\* (sensitivity of C16).
AfterRaceKeepingSend(winner, tag) == IF winner = "left" THEN "done" ELSE tag

\* fetch_internal: `select(send, signal).await` takes both futures; the match arms
\* drop the one that did not win (`Either::Left((response, _))`,
\* `Either::Right((exception, _))`).  The position of the task after the poll.
AfterRace(winner, tag) == IF winner = "pending" THEN tag ELSE "done"

NoVia == [status |-> 0, method |-> "", body |-> NoBody, headers |-> NoHeaders]

\* fetch() without the check of the signal's reason: the future is spawned whatever
\* the signal says (sensitivity of C38).
FetchCallIgnoringSignal ==
    /\ fpc = "idle"
    /\ fpc' = "spawned"
    /\ req' = AddAcceptHeaders(req)
    /\ UNCHANGED outcome
    /\ UNCHANGED <<redirections, isNew, sent, ready, aborted, result, menu, budget,
                   nSent, hopCalls, firstStatus, via, abortPending, cause, seen>>
    /\ UNCHANGED <<mtVars, rVars, bVars, frVars>>

\* fetch(): a signal that already has a reason rejects the promise at once;
\* otherwise the defaults are added and the future is handed to future_to_promise.
FetchCall ==
    /\ fpc = "idle"
    /\ IF aborted
       THEN /\ fpc' = "done"
            /\ outcome' = "rejected_abort"
            /\ UNCHANGED req
       ELSE /\ fpc' = "spawned"
            /\ req' = AddAcceptHeaders(req)
            /\ UNCHANGED outcome
    /\ UNCHANGED <<redirections, isNew, sent, ready, aborted, result, menu, budget,
                   nSent, hopCalls, firstStatus, via, abortPending, cause, seen>>
    /\ UNCHANGED <<mtVars, rVars, bVars, frVars>>

\* AbortController.abort(): the signal gets its reason and wakes the task, if
\* there still is one: the controller may be used at any time, after the fetch
\* is over too.
Abort ==
    /\ ~aborted
    /\ aborted' = TRUE
    /\ abortPending' = (fpc = "transport" /\ ready = NotReady)
    /\ UNCHANGED <<fpc, req, redirections, isNew, sent, ready, result, outcome, menu, budget,
                   nSent, hopCalls, firstStatus, via, cause, seen>>
    /\ UNCHANGED <<mtVars, rVars, bVars, frVars>>

\* The transport completes the request in flight: a response of the server, or a failure.
TransportRespond ==
    /\ fpc = "transport"
    /\ ready = NotReady
    /\ budget > 0
    /\ \E t \in menu : ready' = t
    /\ budget' = budget - 1
    /\ UNCHANGED <<fpc, req, redirections, isNew, sent, aborted, result, outcome, menu,
                   nSent, hopCalls, firstStatus, via, abortPending, cause, seen>>
    /\ UNCHANGED <<mtVars, rVars, bVars, frVars>>

\* tokio::fs::read completes: the bytes of the file, or an io error.
FileReadDone ==
    /\ fpc = "file"
    /\ ready = NotReady
    /\ \E t \in {Failure, FileBytes(3)} : ready' = t
    /\ UNCHANGED <<fpc, req, redirections, isNew, sent, aborted, result, outcome, menu, budget,
                   nSent, hopCalls, firstStatus, via, abortPending, cause, seen>>
    /\ UNCHANGED <<mtVars, rVars, bVars, frVars>>

\* The stretch of main_fetch that one poll of `send` runs: from the start, or from
\* the completed await, to the next await or to the return of main_fetch.
Stretch ==
    IF fpc = "spawned" THEN MainFetchEnter(req, 0)
    ELSE IF ready = NotReady THEN Await(fpc, req, redirections, isNew, sent)
    ELSE IF fpc = "transport" THEN HttpNetworkFetchAfter(req, ready, isNew, redirections, sent)
    ELSE FileFetchAfter(req, ready, redirections)

\* The task of future_to_promise is polled (first poll, or woken by the transport,
\* the file read or the signal): fetch_internal's `select(send, signal).await`.
Poll ==
    /\ fpc \in {"spawned", "transport", "file"}
    /\ fpc = "spawned" \/ ready # NotReady \/ aborted
    /\ \E k \in {Stretch} :
       LET progress == fpc = "spawned" \/ ready # NotReady
           invoked == progress /\ k.tag = "transport"
           winner == Select(k.tag = "done", aborted)
       IN  /\ req' = k.req
           /\ ready' = NotReady
           /\ seen' = IF ready # NotReady THEN ready ELSE seen
           /\ redirections' = k.n
           /\ isNew' = k.isNew
           /\ sent' = k.out
           /\ nSent' = IF invoked THEN nSent + 1 ELSE nSent
           /\ hopCalls' = IF ~invoked THEN hopCalls
                          ELSE IF k.isNew THEN hopCalls + 1 ELSE 1
           /\ firstStatus' = IF ~invoked THEN firstStatus
                             ELSE IF k.isNew THEN ready.status ELSE 0
           /\ via' = IF invoked /\ fpc = "transport" /\ k.n > redirections
                     THEN [status |-> ready.status, method |-> req.method,
                           body |-> req.body, headers |-> req.headers]
                     ELSE via
           /\ fpc' = AfterRace(winner, k.tag)
           /\ CASE winner = "left" ->
                     /\ result' = k.resp
                     /\ cause' = k.cause
                     /\ outcome' = FetchInternalOutcome(k.resp)
                [] winner = "right" ->
                     /\ outcome' = "rejected_abort"
                     /\ UNCHANGED <<result, cause>>
                [] OTHER ->
                     /\ UNCHANGED <<result, cause, outcome>>
    /\ UNCHANGED <<aborted, menu, budget, abortPending>>
    /\ UNCHANGED <<mtVars, rVars, bVars, frVars>>

FNext ==
    \/ FetchCall
    \/ Abort
    \/ TransportRespond
    \/ FileReadDone
    \/ Poll

-----------------------------------------------------------------------------
(* future_to_promise: promise.rs *)

\* Number of future_to_promise calls in one behaviour.
MaxSpawns == 3

Spawns == 1..MaxSpawns

\* A call that has not been made.
NotCalled == [ret |-> "idle", task |-> "absent", handle |-> "absent", promise |-> "absent"]

\* future_to_promise, from `Promise::new(cx)` to its return.  spawn_local comes
\* first and panics outside a LocalSet; inside one it schedules the task.  Only
\* then is `event_loop.futures` looked at: with a queue the handle is enqueued and
\* Some(promise) returned; without one the `map` returns None and the JoinHandle
\* is dropped, which detaches the task: it stays scheduled and nothing takes its
\* result.
FutureToPromiseCall(local, futures) ==
    IF ~local
    THEN [ret |-> "panic", task |-> "absent", handle |-> "absent", promise |-> "dropped"]
    ELSE IF futures
    THEN [ret |-> "Some", task |-> "spawned", handle |-> "enqueued", promise |-> "pending"]
    ELSE [ret |-> "None", task |-> "spawned", handle |-> "dropped", promise |-> "dropped"]

FutureToPromise ==
    /\ bCalls < MaxSpawns
    /\ bCalls' = bCalls + 1
    /\ bridge' = [bridge EXCEPT ![bCalls + 1] = FutureToPromiseCall(inLocalSet, hasFutures)]
    /\ UNCHANGED <<hasFutures, inLocalSet>>
    /\ UNCHANGED <<mtVars, fVars, rVars, frVars>>

\* The LocalSet runs a spawned task to its end: `future.await` gives Ok or Err,
\* boxed into `(result, object)`.
TaskFinish ==
    /\ \E i \in Spawns, res \in {"ok", "err"} :
        /\ bridge[i].task = "spawned"
        /\ bridge' = [bridge EXCEPT ![i].task = res]
    /\ UNCHANGED <<hasFutures, inLocalSet, bCalls>>
    /\ UNCHANGED <<mtVars, fVars, rVars, frVars>>

\* The future queue takes the output of an enqueued handle whose task has
\* finished and settles the promise with it.
QueueSettle ==
    /\ \E i \in Spawns :
        /\ bridge[i].handle = "enqueued"
        /\ bridge[i].task \in {"ok", "err"}
        /\ bridge[i].promise = "pending"
        /\ bridge' = [bridge EXCEPT ![i].promise = IF bridge[i].task = "ok" THEN "resolved"
                                                   ELSE "rejected"]
    /\ UNCHANGED <<hasFutures, inLocalSet, bCalls>>
    /\ UNCHANGED <<mtVars, fVars, rVars, frVars>>

BInit ==
    /\ hasFutures \in BOOLEAN
    /\ inLocalSet \in BOOLEAN
    /\ bCalls = 0
    /\ bridge = [i \in Spawns |-> NotCalled]

\* The bridge at rest, for the specifications of the other parts.
BParked ==
    /\ hasFutures = FALSE
    /\ inLocalSet = FALSE
    /\ bCalls = 0
    /\ bridge = <<>>

BNext ==
    \/ FutureToPromise
    \/ TaskFinish
    \/ QueueSettle

-----------------------------------------------------------------------------
(* FileReader: globals/file/reader.rs *)

\* Number of read calls on the reader in one behaviour.
MaxReads == 3

\* readAsArrayBuffer, readAsBinaryString, readAsText, readAsDataURL.
ReadOperations == {"readAsArrayBuffer", "readAsBinaryString", "readAsText", "readAsDataURL"}

\* FileReaderState::validate: an error in Loading; otherwise the state becomes
\* Loading and the result is Ok.
Validate(state) ==
    IF state = "Loading"
    THEN [ok |-> FALSE, state |-> state]
    ELSE [ok |-> TRUE, state |-> "Loading"]

\* One of the four read operations is called: `self.state.validate()?`, then the
\* task that computes the result is handed to future_to_promise.
Read ==
    /\ Len(frLog) < MaxReads
    /\ \E op \in ReadOperations :
        \E v \in {Validate(frState)} :
            /\ frState' = v.state
            /\ frTask' = IF v.ok THEN op ELSE frTask
            /\ frLog' = Append(frLog, [op |-> op, ok |-> v.ok, busy |-> frTask # ""])
    /\ UNCHANGED frResult
    /\ UNCHANGED <<mtVars, fVars, rVars, bVars>>

\* The task of a read runs: it stores the value in `reader.result` and returns
\* Ok(()).  It writes no other field of the reader.
ReadTask ==
    /\ frTask # ""
    /\ frResult' = frTask
    /\ frTask' = ""
    /\ UNCHANGED <<frState, frLog>>
    /\ UNCHANGED <<mtVars, fVars, rVars, bVars>>

\* FileReader::default
FrInit ==
    /\ frState = "Empty"
    /\ frResult = "null"
    /\ frTask = ""
    /\ frLog = <<>>

\* The reader at rest, for the specifications of the other parts.
FrParked ==
    /\ frState = "Empty"
    /\ frResult = "null"
    /\ frTask = ""
    /\ frLog = <<>>

FrNext ==
    \/ Read
    \/ ReadTask

-----------------------------------------------------------------------------
(* fetch: the requests and the servers of the model *)

Request(method, body, url, mode, redirect, p) ==
    [method |-> method, url |-> url, headers |-> p.headers, body |-> body, mode |-> mode,
     credentials |-> p.credentials, cache |-> p.cache, redirect |-> redirect,
     referrer |-> p.referrer, referrer_policy |-> "", client_window |-> p.client_window,
     locations |-> <<>>]

\* Method and body as the Request constructor lets them combine (no body on GET and HEAD).
MethodsAndBodies ==
    {<<"GET", NoBody>>, <<"HEAD", NoBody>>, <<"POST", NoBody>>, <<"POST", Body("bytes", 3)>>,
     <<"POST", Body("stream", 0)>>, <<"PUT", Body("bytes", 3)>>}

RequestUrls ==
    {Url("http", FALSE, "a.test", 0, "/"),
     Url("https", FALSE, "a.test", 8443, "/"),
     Url("http", FALSE, "a.test", 22, "/"),
     Url("about", FALSE, "", 0, "blank"),
     Url("data", FALSE, "", 0, "text/plain,hi"),
     Url("data", FALSE, "", 0, "text/plain;base64,@@"),
     Url("file", FALSE, "", 0, "/tmp/f"),
     Url("blob", FALSE, "", 0, "3f2a"),
     Url("ftp", FALSE, "a.test", 0, "/")}

\* The other fields of the request: headers the caller set, cache and credentials
\* modes, referrer, client window.
Profiles ==
    {[headers |-> HeadersOf(("content-type" :> <<"text/plain">>) @@
                            ("content-language" :> <<"en">>) @@
                            ("content-encoding" :> <<"gzip">>) @@
                            ("content-location" :> <<"/doc">>)),
      credentials |-> "same-origin", cache |-> "default", referrer |-> "client",
      client_window |-> TRUE],
     [headers |-> HeadersOf(("if-none-match" :> <<"tag">>) @@ ("range" :> <<"bytes=0-4">>)),
      credentials |-> "include", cache |-> "default", referrer |-> "https://a.test/page",
      client_window |-> FALSE],
     [headers |-> HeadersOf(("cache-control" :> <<"max-age=5">>) @@
                            ("content-type" :> <<"text/plain">>)),
      credentials |-> "omit", cache |-> "no-store", referrer |-> "no-referrer",
      client_window |-> TRUE],
     [headers |-> NoHeaders,
      credentials |-> "same-origin", cache |-> "only-if-cached", referrer |-> "client",
      client_window |-> TRUE],
     [headers |-> HeadersOf("pragma" :> <<"x-custom">>),
      credentials |-> "same-origin", cache |-> "reload", referrer |-> "client",
      client_window |-> TRUE]}

Requests ==
    {Request(mb[1], mb[2], u, m, rd, p) :
        mb \in MethodsAndBodies, u \in RequestUrls,
        m \in {"same-origin", "no-cors", "cors"}, rd \in {"follow", "error", "manual"},
        p \in Profiles}

\* A response of the transport.
Incoming(status, pairs, len) ==
    [tag |-> "response", status |-> status, headers |-> HeadersOf(pairs),
     body |-> Body("bytes", len)]

Redirect(status, location) == Incoming(status, "location" :> <<location>>, 0)

\* Final responses.
ServerFinal ==
    {Incoming(200, ("content-type" :> <<"text/plain">>) @@ ("set-cookie" :> <<"a=1">>) @@
                   ("x-trace" :> <<"1">>), 3),
     Incoming(204, "x-trace" :> <<"1">>, 0)}

\* Redirects the handler follows.
ServerRedirects ==
    {Redirect(301, "http://b.test/"), Redirect(302, "/next"),
     Redirect(303, "https://b.test:8443/x"), Redirect(307, "http://b.test/"),
     Redirect(308, "/next")}

\* Redirects the handler refuses, or does not take for one.
ServerBadRedirects ==
    {Redirect(302, "http://b.test:25/"), Redirect(302, "ftp://b.test/f"),
     Redirect(301, "https://u:p@b.test/"), Redirect(302, "http://["),
     Incoming(302, "x-trace" :> <<"1">>, 0),
     Incoming(302, "location" :> <<"/next", "http://b.test/">>, 0)}

\* Statuses http_network_fetch looks at, and the failure of the transport.
ServerErrors ==
    {Incoming(421, "x-trace" :> <<"1">>, 0), Incoming(407, "x-trace" :> <<"1">>, 0),
     Failure}

\* Responses with Access-Control-Allow-Headers: a list of names, and the wildcard
\* (with a header of two values).
ServerCors ==
    {Incoming(200, ("access-control-allow-headers" :> <<"x-trace">>) @@
                   ("content-type" :> <<"text/plain">>) @@ ("set-cookie" :> <<"a=1">>) @@
                   ("x-trace" :> <<"1">>), 3),
     Incoming(200, ("access-control-allow-headers" :> <<"*">>) @@
                   ("content-type" :> <<"text/plain">>) @@ ("x-trace" :> <<"1", "2">>), 3)}

\* A partial response.
ServerPartial == {Incoming(206, "x-trace" :> <<"1">>, 3)}

\* The servers a behaviour of SpecFetch may talk to.
Menus ==
    {ServerFinal \cup ServerRedirects,
     ServerFinal \cup ServerBadRedirects \cup {Redirect(302, "/next")},
     ServerFinal \cup ServerErrors \cup {Redirect(302, "/next")},
     ServerCors \cup ServerPartial \cup {Redirect(302, "/next")}}

FInitWith(requests, menus, responses) ==
    /\ fpc = "idle"
    /\ req \in requests
    /\ redirections = 0
    /\ isNew = FALSE
    /\ sent = NoOutgoing
    /\ ready = NotReady
    /\ aborted = FALSE
    /\ result = NetworkError
    /\ outcome = "pending"
    /\ menu \in menus
    /\ budget = responses
    /\ nSent = 0
    /\ hopCalls = 0
    /\ firstStatus = 0
    /\ via = NoVia
    /\ abortPending = FALSE
    /\ cause = ""
    /\ seen = NotReady

\* The fetch part at rest, for the specifications of the other parts.
FParked == FInitWith({Request("GET", NoBody, NoUrl, "cors", "follow",
                              [headers |-> NoHeaders, credentials |-> "omit",
                               cache |-> "default", referrer |-> "client",
                               client_window |-> FALSE])},
                     {{}}, 0) 

\* The local-scheme part at rest.
RParked ==
    /\ rpc = "parked"
    /\ rReq = <<>>
    /\ rBytes = <<>>
    /\ rResp = <<>>

FInit == FInitWith(Requests, Menus, MaxResponses) /\ MtInit /\ RParked /\ BParked /\ FrParked

SpecFetch == FInit /\ [][FNext]_vars

\* The requests and the server of SpecFetchCap: a server that keeps redirecting,
\* with enough responses to pass the redirect cap.
CapRequests ==
    {r \in Requests :
        /\ r.url \in {Url("http", FALSE, "a.test", 0, "/"), Url("file", FALSE, "", 0, "/tmp/f")}
        /\ r.method \in {"GET", "POST"}
        /\ r.body.kind # "stream"
        /\ r.mode \in {"cors", "no-cors"}
        /\ r.redirect = "follow"
        /\ r.cache = "default"}

CapMenus == {{Redirect(302, "/next"), Incoming(421, "x-trace" :> <<"1">>, 0)} \cup ServerFinal}

FCapInit == FInitWith(CapRequests, CapMenus, RedirectCap + MaxResponses) /\ MtInit /\ RParked /\ BParked /\ FrParked

SpecFetchCap == FCapInit /\ [][FNext]_vars

\* The requests and the servers of SpecFetchLive: a server that keeps redirecting
\* and keeps answering 421, with a response for every invocation the pipeline can
\* make, and the redirects the handler refuses.
LiveRequests ==
    {r \in Requests :
        /\ <<r.url.scheme, r.url.port, r.method, r.body.kind, r.mode>> \in
                {<<"http", 0, "GET", "none", "cors">>,
                 <<"http", 0, "POST", "bytes", "no-cors">>,
                 <<"http", 0, "POST", "stream", "cors">>,
                 <<"file", 0, "GET", "none", "cors">>}
        /\ r.redirect = "follow"
        /\ r.cache = "default"
        /\ r.credentials = "same-origin"}

LiveMenu ==
    {Redirect(302, "/next"), Incoming(421, "x-trace" :> <<"1">>, 0),
     Incoming(204, "x-trace" :> <<"1">>, 0)}
    \cup (ServerBadRedirects \ {Redirect(301, "https://u:p@b.test/")})

LiveMenus == {LiveMenu, LiveMenu \cup {Redirect(301, "https://u:p@b.test/")}}

\* Transport invocations of one fetch: the first hop and RedirectCap redirects,
\* each with its retry.
MaxInvocations == 2 * (RedirectCap + 1)

\* The redirect to a URL with credentials is served to cors requests, which
\* refuse it.
FLiveInit ==
    /\ FInitWith(LiveRequests, LiveMenus, MaxInvocations)
    /\ (req.mode = "cors" \/ menu = LiveMenu)
    /\ MtInit /\ RParked /\ BParked /\ FrParked

\* The scheduling of a fetch: fetch() is called, the transport and the file read
\* complete, and a task that has been woken is polled.
FFairness ==
    /\ WF_vars(FetchCall)
    /\ WF_vars(TransportRespond)
    /\ WF_vars(FileReadDone)
    /\ WF_vars(Poll)

SpecFetchLive == FLiveInit /\ [][FNext]_vars /\ FFairness

\* The queue after construction, the other parts at rest.
MicrotasksInit == MtInit /\ FParked /\ RParked /\ BParked /\ FrParked

SpecMicrotasks == MicrotasksInit /\ [][MtNext]_vars

\* The scheduling of the queue: the host keeps calling run_jobs from outside a
\* drain, a running microtask returns, and the drain loop goes on to its next
\* iteration or to its end.
MtFairness ==
    /\ WF_vars(HostRunJobs)
    /\ WF_vars(PopFront)
    /\ WF_vars(TaskReturn)
    /\ WF_vars(LoopExit)

SpecMicrotasksLive == MicrotasksInit /\ [][MtNext]_vars /\ MtFairness

\* A new FileReader, the other parts at rest.
ReaderInit == FrInit /\ MtInit /\ FParked /\ RParked /\ BParked

SpecReader == ReaderInit /\ [][FrNext]_vars

\* The bridge before its first call, the other parts at rest.
BridgeInit == BInit /\ MtInit /\ FParked /\ RParked /\ FrParked

SpecBridge == BridgeInit /\ [][BNext]_vars

-----------------------------------------------------------------------------
(* Claims about fetch *)

\* main_fetch returned to fetch_internal (the signal did not win the race).
Returned == fpc = "done" /\ outcome \in {"resolved", "rejected_error"}

\* C3: if the signal is aborted while the transport has not yet responded, the
\* fetch settles as a rejection carrying the abort reason, whatever the order of
\* the transport's completion and the next poll of the task.
C3_AbortBeatsTransport ==
    (abortPending /\ outcome # "pending") => outcome = "rejected_abort"

\* C4: at most 20 redirects are followed: no main_fetch runs at a depth beyond 20,
\* the redirect history never holds more than 20 targets, and a redirect response
\* with a Location received after 20 followed redirects ends in a network error.
C4_RedirectCap ==
    /\ redirections <= RedirectCap
    /\ Len(req.locations) <= RedirectCap
    /\ (/\ Returned
        /\ Len(req.locations) = RedirectCap
        /\ IsRedirection(seen.status)
        /\ ContainsKey(seen.headers, "location"))
       => result.kind = "error"

\* C4 witness: the 21st redirect response was received and refused.
C4_Witness ==
    /\ Returned
    /\ Len(req.locations) = RedirectCap
    /\ seen.status = 302
    /\ nSent > RedirectCap
    /\ result.kind = "error"

\* C5: the transport is never handed a request for a blocked port, and a fetch
\* that reaches an http/https URL with a blocked port, at first or by a redirect,
\* ends in a network error.
C5_BlockedPortNeverSent ==
    /\ sent.url.port \notin BadPorts
    /\ (Returned /\ req.url.scheme \in {"http", "https"} /\ req.url.port \in BadPorts)
       => result.kind = "error"

\* C5 witness: a redirect led to a blocked port and the fetch ended in a network error.
C5_Witness ==
    /\ Returned
    /\ Len(req.locations) > 0
    /\ req.url.port = 25
    /\ result.kind = "error"

\* The request as the hop in progress has it is the downgraded one.
Downgraded(r) ==
    /\ r.method = "GET"
    /\ r.body = NoBody
    /\ \A h \in ContentHeaders : ~ContainsKey(r.headers, h)

\* C6: a POST redirected by 301 or 302 goes to the transport as a GET without a
\* body and without any Content-Encoding, Content-Language, Content-Location or
\* Content-Type header.
C6_PostBecomesGet ==
    (fpc = "transport" /\ via.status \in {301, 302} /\ via.method = "POST")
    => (Downgraded(req) /\ Downgraded(sent))

\* C6 witness: a POST with a body and the four headers was redirected by a 302.
C6_Witness ==
    /\ fpc = "transport"
    /\ via.status = 302
    /\ via.method = "POST"
    /\ via.body.kind = "bytes"
    /\ \A h \in ContentHeaders : ContainsKey(via.headers, h)
    /\ sent.method = "GET"

\* C7: the downgrade is applied exactly when (301 or 302, and POST) or (303, and
\* neither GET nor HEAD); in every other followed redirect the method, the body
\* and the Content-* headers of the request stay as they were.
C7_DowngradeExactly ==
    (fpc = "transport" /\ via.status # 0) =>
        IF \/ via.status \in {301, 302} /\ via.method = "POST"
           \/ via.status = 303 /\ via.method \notin {"GET", "HEAD"}
        THEN Downgraded(req)
        ELSE /\ req.method = via.method
             /\ req.body = via.body
             /\ \A h \in ContentHeaders : req.headers[h] = via.headers[h]

\* The failures of the pipeline, as they show in the request and in the last
\* completion the task took.
BadScheme == req.url.scheme \notin (Schemes \cup {"http", "https"})
BlockedDestination == req.url.scheme \in {"http", "https"} /\ req.url.port \in BadPorts
TransportFailed == seen.tag = "failure"
DisallowedRedirect ==
    /\ IsRedirection(seen.status)
    /\ \/ req.redirect = "error"
       \/ req.redirect = "follow" /\ Len(seen.headers["location"]) > 1
       \/ req.redirect = "follow" /\ Len(seen.headers["location"]) = 1 /\
            LET l == UrlParse(req.url, seen.headers["location"][1])
            IN  l = NoUrl \/ l.scheme \notin {"http", "https"}
CacheOnlyMiss ==
    /\ req.cache = "only-if-cached"
    /\ req.url.scheme \in {"http", "https"}
FetchFailure ==
    BadScheme \/ BlockedDestination \/ TransportFailed \/ DisallowedRedirect \/ CacheOnlyMiss

C10_OneRetry ==
    /\ hopCalls <= 2
    /\ hopCalls = 2 => (firstStatus = 421 /\ IsNotStream(req.body))
    /\ (fpc = "transport" /\ isNew) => hopCalls = 2
    /\ (Returned /\ hopCalls = 2 /\ seen.status = 421)
       => (result.status = 421 /\ result.kind # "error")

\* C10 witness: the retry got a 421 again and that response was returned.
C10_Witness ==
    /\ Returned
    /\ hopCalls = 2
    /\ firstStatus = 421
    /\ seen.status = 421
    /\ result.status = 421

\* The names listed by the Access-Control-Allow-Headers values of a header store.
AllowList(h) ==
    {h["access-control-allow-headers"][i] : i \in 1..Len(h["access-control-allow-headers"])}

\* The allow-list grants every header: a literal `*`, unless credentials == include.
GrantsWildcard(r, h) == r.credentials # "include" /\ "*" \in AllowList(h)

\* C11: for a cors response whose allow-list does not grant the wildcard, every
\* header left in the response main_fetch returns is named in the allow-list, and
\* the headers the allow-list names (the forbidden response headers aside) are
\* kept as the transport gave them.
C11_CorsKeepsAllowList ==
    (/\ Returned
     /\ result.kind = "cors"
     /\ seen.tag = "response"
     /\ ~GrantsWildcard(req, seen.headers))
    => \A n \in HeaderNames :
        /\ ContainsKey(result.headers, n) => n \in AllowList(seen.headers)
        /\ (n \in AllowList(seen.headers) /\ n \notin ForbiddenResponseHeaders)
           => result.headers[n] = seen.headers[n]

\* C12: no response main_fetch returns at the top level, whatever its taint and
\* however many redirects were followed, holds a Set-Cookie or Set-Cookie2 header.
C12_NoForbiddenHeader ==
    \A n \in ForbiddenResponseHeaders : ~ContainsKey(result.headers, n)

\* C12 witness: after a redirect the transport gave a response with Set-Cookie,
\* and the fetch resolved with a cors response.
C12_Witness ==
    /\ Returned
    /\ outcome = "resolved"
    /\ result.kind = "cors"
    /\ Len(req.locations) > 0
    /\ ContainsKey(seen.headers, "set-cookie")

\* The response main_fetch returned is the last response of the transport, as
\* filtered: its header store is the Immutable store made from that response.
FromTransport ==
    /\ Returned
    /\ result.kind # "error"
    /\ seen.tag = "response"
    /\ result.headersKind = "immutable"

\* C13 as claimed: an Immutable header store is never changed after it is
\* created: the response main_fetch returns has the headers the transport gave.
C13_ImmutableNeverChanged ==
    FromTransport => result.headers = seen.headers

\* C13 as amended: the store keeps its kind, no entry is added or altered, and an
\* entry is removed only by the final filtering of main_fetch: a forbidden
\* response header, a header the CORS filter selects, or every header of an
\* opaque redirect.
C13_OnlyFilteringRemoves ==
    FromTransport =>
        \A n \in HeaderNames :
            \/ result.headers[n] = seen.headers[n]
            \/ /\ result.headers[n] = <<>>
               /\ \/ n \in ForbiddenResponseHeaders
                  \/ result.kind = "opaqueredirect"
                  \/ result.kind = "cors" /\ n \in CorsToRemove(req, seen.headers)

\* C13 witness: the Set-Cookie entry of an Immutable store was removed by the
\* filtering of a basic response, the other entries kept.
C13_Witness ==
    /\ FromTransport
    /\ result.kind = "basic"
    /\ ContainsKey(seen.headers, "set-cookie")
    /\ ~ContainsKey(result.headers, "set-cookie")
    /\ result.headers["content-type"] = seen.headers["content-type"]
    /\ ContainsKey(result.headers, "content-type")

\* C14: with redirect == manual a 3xx response of the transport is not followed
\* (no redirect target, no further transport invocation) and main_fetch returns
\* an opaque-redirect response without URL, status, body or headers.
C14_ManualRedirectOpaque ==
    (req.redirect = "manual" /\ seen.tag = "response" /\ IsRedirection(seen.status)) =>
        /\ Returned
        /\ outcome = "resolved"
        /\ result.kind = "opaqueredirect"
        /\ result.url = NoUrl
        /\ result.status = 0
        /\ result.body = NoBody
        /\ result.headers = NoHeaders
        /\ req.locations = <<>>
        /\ redirections = 0
        /\ nSent = hopCalls

\* C14 witness: a 302 with a Location was received in manual mode.
C14_Witness ==
    /\ req.redirect = "manual"
    /\ seen.status = 302
    /\ ContainsKey(seen.headers, "location")
    /\ result.kind = "opaqueredirect"

\* C15: a request whose scheme is local (about, blob, data, file) is delegated to
\* the scheme router whatever its mode: its fetch never ends in the network error
\* of mode == same-origin.
C15_LocalSchemeDelegated ==
    (Returned /\ req.url.scheme \in Schemes) => cause # "same-origin"

\* C16: once the signal has won the race the main_fetch in flight is dropped:
\* after the rejection with the abort reason there is no transport invocation, no
\* redirect followed, no change of the Request and no Response delivered.
C16_DroppedAfterAbort ==
    [][outcome = "rejected_abort" =>
        /\ nSent' = nSent
        /\ sent' = sent
        /\ redirections' = redirections
        /\ req' = req
        /\ result' = result
        /\ outcome' = outcome]_vars

\* C16 witness: the signal won while the request to a redirect target was in flight.
C16_Witness ==
    /\ outcome = "rejected_abort"
    /\ fpc = "done"
    /\ nSent > 1
    /\ Len(req.locations) > 0

\* C20: a request with cache == only-if-cached never reaches the transport, and
\* its http/https fetch ends in a network error.
C20_OnlyIfCachedNeverSent ==
    /\ req.cache = "only-if-cached" => (nSent = 0 /\ fpc # "transport")
    /\ sent.cache # "only-if-cached"
    /\ (Returned /\ CacheOnlyMiss) => result.kind = "error"

\* C20 witness: http_network_fetch returned the network error of only-if-cached.
C20_Witness ==
    /\ Returned
    /\ req.cache = "only-if-cached"
    /\ cause = "cache-only-miss"
    /\ nSent = 0
    /\ result.kind = "error"

\* C21: a request to an http/https URL with mode == no-cors and redirect other
\* than follow never reaches the transport, and main_fetch returns a network
\* error for it.
C21_NoCorsNeedsFollow ==
    (/\ req.url.scheme \in {"http", "https"}
     /\ req.mode = "no-cors"
     /\ req.redirect # "follow")
    => /\ nSent = 0
       /\ fpc # "transport"
       /\ sent = NoOutgoing
       /\ Returned => result.kind = "error"

\* C21 witness: a no-cors request in manual mode to an allowed port was refused.
C21_Witness ==
    /\ Returned
    /\ req.url = Url("http", FALSE, "a.test", 0, "/")
    /\ req.mode = "no-cors"
    /\ req.redirect = "manual"
    /\ cause = "no-cors-redirect"
    /\ result.kind = "error"
    /\ nSent = 0

\* C24: every fetch comes to its end when the transport and the file read
\* complete; it follows at most 20 redirects, each hop invokes the transport at
\* most twice, and so one fetch invokes the transport at most 42 times.
C24_MainFetchTerminates ==
    /\ <>(fpc = "done")
    /\ [](/\ Len(req.locations) <= RedirectCap
          /\ hopCalls <= 2
          /\ nSent <= 2 * (Len(req.locations) + 1)
          /\ nSent <= MaxInvocations)

\* C24 witness: a fetch that made all 42 invocations and returned.
C24_Witness ==
    /\ Returned
    /\ Len(req.locations) = RedirectCap
    /\ nSent = MaxInvocations

\* C25: the promise of a fetch call is settled exactly once: when the call or
\* its task comes to its end, with one of three outcomes (a Response that is not
\* a network error, the abort reason, an error for a network-error Response);
\* once settled it keeps its outcome and its Response, whatever happens after,
\* an abort included.
C25_SettledOnce ==
    /\ [](/\ outcome \in {"pending", "resolved", "rejected_abort", "rejected_error"}
          /\ fpc = "done" <=> outcome # "pending"
          /\ outcome = "resolved" => result.kind # "error"
          /\ outcome = "rejected_error" => result.kind = "error")
    /\ [][outcome # "pending" => (outcome' = outcome /\ result' = result /\ fpc' = fpc)]_vars

\* C25 witness: the signal has its reason and the promise is resolved with the
\* Response of a fetch that followed a redirect.
C25_Witness ==
    /\ fpc = "done"
    /\ outcome = "resolved"
    /\ aborted
    /\ result.kind = "cors"
    /\ Len(req.locations) > 0

\* The task took a 3xx response of the transport and handed it to the redirect
\* handler (redirect == follow; 3xx statuses are neither 407 nor 421).
HandlerGot == req.redirect = "follow" /\ seen.tag = "response" /\ IsRedirection(seen.status)

RefusedTarget ==
    /\ HandlerGot
    /\ Len(seen.headers["location"]) = 1
    /\ LET target == UrlParse(req.url, seen.headers["location"][1]) IN
        /\ target # NoUrl
        /\ \/ target.scheme \notin {"http", "https"}
           \/ req.mode = "cors" /\ target.creds

\* C27: a redirect whose target is not http/https, or carries credentials while
\* the taint is cors (mode == cors), is not followed: the fetch ends in a network
\* error, the target enters neither the Request nor its history, and the
\* transport is never handed such a URL.
C27_TargetRefused ==
    /\ RefusedTarget =>
            /\ Returned
            /\ result.kind = "error"
            /\ cause \in {"redirect-scheme", "redirect-credentials"}
            /\ req.url # UrlParse(req.url, seen.headers["location"][1])
    /\ \A u \in {sent.url} \cup {req.locations[i] : i \in 1..Len(req.locations)} :
            /\ u.scheme \in {"", "http", "https"}
            /\ req.mode = "cors" => ~u.creds

\* C27 witness: a cors request was redirected to a URL with credentials, after
\* one redirect had been followed, and ended in a network error.
C27_Witness ==
    /\ HandlerGot
    /\ req.mode = "cors"
    /\ seen.headers["location"] = <<"https://u:p@b.test/">>
    /\ Len(req.locations) = 1
    /\ cause = "redirect-credentials"
    /\ result.kind = "error"

\* The network errors the redirect handler itself returns.
RedirectRejections ==
    {"redirect-location", "redirect-scheme", "redirect-cap", "redirect-credentials",
     "redirect-stream"}

\* C28: when the redirect handler refuses a redirect with a network error (bad
\* Location, scheme that is not http/https, redirect cap, credentials under cors
\* taint, stream body) the Request is as it was before the handler ran: URL,
\* method, body, headers, referrer policy and redirect history.
C28_RefusalLeavesRequest ==
    [][(fpc # "done" /\ fpc' = "done" /\ cause' \in RedirectRejections)
       => (req' = req /\ result'.kind = "error")]_vars

\* C28 witness: a POST with a body and a Content-Type, redirected by a 302 (which
\* would make it a GET) to an ftp: URL, is still that POST.
C28_Witness ==
    /\ Returned
    /\ cause = "redirect-scheme"
    /\ seen.status = 302
    /\ req.method = "POST"
    /\ req.body.kind = "bytes"
    /\ ContainsKey(req.headers, "content-type")
    /\ req.locations = <<>>
    /\ req.url = Url("http", FALSE, "a.test", 0, "/")

\* The step is a poll in which the task takes a response of the transport.
TakesResponse == fpc = "transport" /\ ready # NotReady /\ ready.tag = "response" /\ ready' = NotReady

\* The response the task takes is a redirect with a Location, to be followed.
TakesRedirect ==
    /\ TakesResponse
    /\ req.redirect = "follow"
    /\ IsRedirection(ready.status)
    /\ ContainsKey(ready.headers, "location")

\* C29: the redirect history of the Request holds the resolved URLs of the
\* redirects followed, in the order followed.  A step changes it only by adding
\* at its end the resolved target of the redirect the task takes, which becomes
\* the URL of the Request; a redirect that adds nothing is one the handler
\* refused.  Its length is the number of redirects followed (the depth of the
\* main_fetch in progress), at most 20, and its last entry is the URL of the
\* Request.
C29_RedirectHistory ==
    /\ [](/\ Len(req.locations) <= RedirectCap
          /\ fpc \in {"transport", "file"} => Len(req.locations) = redirections
          /\ req.locations # <<>> => req.url = req.locations[Len(req.locations)])
    /\ [][\/ /\ req'.locations = req.locations
              /\ req'.url = req.url
              /\ TakesRedirect => (fpc' = "done" /\ cause' \in RedirectRejections)
           \/ /\ TakesRedirect
              /\ Len(ready.headers["location"]) = 1
              /\ req'.locations =
                    Append(req.locations, UrlParse(req.url, ready.headers["location"][1]))
              /\ req'.url = UrlParse(req.url, ready.headers["location"][1])]_vars

\* C29 witness: two redirects to /next, then one to a blocked port, which was
\* followed and ended the fetch: the three targets in that order.
C29_Witness ==
    /\ Returned
    /\ Len(req.locations) = 3
    /\ req.locations[1] = Url("http", FALSE, "a.test", 0, "/next")
    /\ req.locations[2] = Url("http", FALSE, "a.test", 0, "/next")
    /\ req.locations[3] = Url("http", FALSE, "b.test", 25, "/")
    /\ req.url = req.locations[3]
    /\ cause = "blocked-port"

\* C30: the response main_fetch returns at the top level has `redirected` set
\* exactly when at least one redirect was followed and the response is not a
\* network error.
C30_RedirectedFlag ==
    Returned => (result.redirected <=> (Len(req.locations) > 0 /\ result.kind # "error"))

\* C30 witness: two redirects were followed and the response returned is marked.
C30_Witness ==
    /\ Returned
    /\ outcome = "resolved"
    /\ Len(req.locations) = 2
    /\ result.status = 200
    /\ result.redirected

\* The headers http_network_fetch may add to the outgoing request.
NormalisationHeaders ==
    {"content-length", "referer", "user-agent", "cache-control", "pragma", "accept-encoding",
     "host"}

\* C31: http_network_fetch writes its normalisation to the outgoing request
\* only.  No step changes the cache mode of the Request or any normalisation
\* header of its store; the outgoing request holds the headers of the Request
\* and at most one value more under each normalisation header (none more under
\* any other); and the retry after a 421 sends the headers of the first attempt.
C31_NormalisationOnClone ==
    /\ [][/\ req'.cache = req.cache
          /\ \A n \in NormalisationHeaders : req'.headers[n] = req.headers[n]
          /\ (fpc = "transport" /\ hopCalls' = 2 /\ hopCalls = 1) => sent' = sent]_vars
    /\ [](fpc = "transport" =>
            \A n \in HeaderNames :
                /\ IsPrefix(req.headers[n], sent.headers[n])
                /\ Len(sent.headers[n]) <=
                        Len(req.headers[n]) + (IF n \in NormalisationHeaders THEN 1 ELSE 0))

\* C31 witness: the retry after a 421, on the hop a redirect led to, of a request
\* that gets a Content-Length, a Referer, a User-Agent and a Host.
C31_Witness ==
    /\ fpc = "transport"
    /\ hopCalls = 2
    /\ Len(req.locations) = 1
    /\ \A n \in {"content-length", "referer", "user-agent", "host"} :
            req.headers[n] = <<>> /\ Len(sent.headers[n]) = 1
    /\ req.cache = "default"
    /\ sent.cache = "no-store"

\* The values a header store holds under a name.
Values(h, n) == {h[n][i] : i \in 1..Len(h[n])}

\* C32 as claimed: for a request with cache in {no-store, reload} the outgoing
\* request carries `Pragma: no-cache` and `Cache-Control: no-cache`, whatever
\* Pragma or Cache-Control headers the caller had set.
C32_BothNoCache ==
    (fpc = "transport" /\ req.cache \in {"no-store", "reload"}) =>
        /\ "no-cache" \in Values(sent.headers, "pragma")
        /\ "no-cache" \in Values(sent.headers, "cache-control")

\* C32 as amended: for a request with cache in {no-store, reload} the outgoing
\* request carries a Pragma header and a Cache-Control header: under each name
\* the values the caller had set, and the one value `no-cache` when the caller
\* had set none.
C32_NoCacheWhenAbsent ==
    (fpc = "transport" /\ req.cache \in {"no-store", "reload"}) =>
        \A n \in {"pragma", "cache-control"} :
            sent.headers[n] = IF req.headers[n] = <<>> THEN <<"no-cache">> ELSE req.headers[n]

\* C32 witness: a no-store request whose caller had set `Cache-Control: max-age=5`
\* goes out with that value and with `Pragma: no-cache`.
C32_Witness ==
    /\ fpc = "transport"
    /\ req.cache = "no-store"
    /\ req.headers["cache-control"] = <<"max-age=5">>
    /\ sent.headers["cache-control"] = <<"max-age=5">>
    /\ sent.headers["pragma"] = <<"no-cache">>

\* The Request carries one of the conditional headers.
IsConditional(r) ==
    \E n \in {"if-modified-since", "if-none-match", "if-unmodified-since", "if-match",
              "if-range"} : r.headers[n] # <<>>

\* C33: a request with cache == default that carries a conditional header goes
\* out as a no-store request, and so with `Pragma: no-cache` and
\* `Cache-Control: no-cache` where the caller had set no header of that name; a
\* request with cache == default and no conditional header goes out as default,
\* with the Pragma and Cache-Control headers of the caller and no other.  The
\* cache mode of the Request itself stays default.
C33_ConditionalIsNoStore ==
    (fpc = "transport" /\ req.cache = "default") =>
        IF IsConditional(req)
        THEN /\ sent.cache = "no-store"
             /\ \A n \in {"pragma", "cache-control"} :
                    sent.headers[n] =
                        IF req.headers[n] = <<>> THEN <<"no-cache">> ELSE req.headers[n]
        ELSE /\ sent.cache = "default"
             /\ \A n \in {"pragma", "cache-control"} : sent.headers[n] = req.headers[n]

\* C33 witness: a default request with If-None-Match is on its way as no-store,
\* with both directives.
C33_Witness ==
    /\ fpc = "transport"
    /\ req.cache = "default"
    /\ req.headers["if-none-match"] = <<"tag">>
    /\ sent.cache = "no-store"
    /\ sent.headers["pragma"] = <<"no-cache">>
    /\ sent.headers["cache-control"] = <<"no-cache">>

\* The body the scheme fetch or the HTTP fetch gave: of the last completion the
\* task took, or of the response made without an await (about:, data:).
FetchedBody == IF seen.tag = "none" THEN SchemeFetchSync(req.url).body ELSE seen.body

\* C34: a response main_fetch returns at the top level that is neither a network
\* error nor an opaque redirect has no body exactly when the method of the
\* request is HEAD or CONNECT or its status is 101, 103, 204, 205 or 304;
\* otherwise it has the body the scheme fetch or the HTTP fetch gave.
C34_BodyNulling ==
    (Returned /\ result.kind \notin {"error", "opaqueredirect"}) =>
        result.body =
            IF \/ req.method \in {"HEAD", "CONNECT"}
               \/ result.status \in {101, 103, 204, 205, 304}
            THEN NoBody
            ELSE FetchedBody

\* C34 witness: the 200 response to a HEAD request came with three bytes and is
\* returned without a body.
C34_Witness ==
    /\ Returned
    /\ req.method = "HEAD"
    /\ result.kind = "cors"
    /\ result.status = 200
    /\ seen.body = Body("bytes", 3)
    /\ result.body = NoBody

\* C36: the taint main_fetch computes is basic or cors, never opaque: no
\* response it returns at the top level has kind opaque, each has one of the
\* kinds basic, cors, opaque redirect and error, and no network error comes from
\* the range-reuse guard.
C36_NeverOpaque ==
    Returned =>
        /\ result.kind \in {"basic", "cors", "opaqueredirect", "error"}
        /\ cause # "range-reuse"
        /\ result.kind = "basic" =>
                (req.mode = "no-cors" \/ req.url.scheme \notin {"http", "https"})
        /\ result.kind \in {"cors", "opaqueredirect"} => req.mode = "cors"

\* C36 witness: a no-cors request with a Range header got a 206 without a Range
\* header of its own, all the guard asks for but the taint, and it is returned
\* as a basic response.
C36_Witness ==
    /\ Returned
    /\ req.mode = "no-cors"
    /\ ContainsKey(req.headers, "range")
    /\ result.kind = "basic"
    /\ result.status = 206
    /\ result.range_requested
    /\ ~ContainsKey(result.headers, "range")

\* C38: when the signal is already aborted at the call of fetch, the call ends
\* at once with the promise rejected with the abort reason, the request as it
\* was, and nothing started: no future spawned, no Main Fetch, no request sent,
\* no file read; and a call that is over starts nothing afterwards.
C38_AbortedBeforeCall ==
    [][/\ (fpc = "idle" /\ aborted /\ fpc' # "idle") =>
            /\ fpc' = "done"
            /\ outcome' = "rejected_abort"
            /\ req' = req
            /\ hopCalls' = 0 /\ nSent' = 0
            /\ sent' = NoOutgoing /\ ready' = NotReady
       /\ fpc = "done" =>
            /\ fpc' = "done"
            /\ hopCalls' = hopCalls /\ nSent' = nSent
            /\ sent' = sent /\ ready' = ready /\ outcome' = outcome]_vars

C38_Witness ==
    /\ fpc = "done"
    /\ aborted
    /\ outcome = "rejected_abort"
    /\ hopCalls = 0 /\ nSent = 0
    /\ sent = NoOutgoing

-----------------------------------------------------------------------------
(* Local schemes with byte ranges: scheme.rs *)

\* Length of the files and blobs of the model (besides the 10-byte file of the spec's example).
MaxFileLen == 3

\* A bound of a range-spec as written in the header: a number, Empty for no
\* digits ("-4", "2-"), Garbage for anything that is not a number.
Empty == -1
Garbage == -2
BoundTokens == {Garbage, Empty} \cup (0..(MaxFileLen + 1))

\* The bytes of a file of the given length: byte i holds i.
Content(len) == [i \in 1..len |-> i]

\* The header names of a local-scheme response.
LocalHeaderNames == {"content-length", "content-range", "content-type"}

LocalHeaders(pairs) ==
    [n \in LocalHeaderNames |-> IF n \in DOMAIN pairs THEN pairs[n] ELSE <<>>]

\* A local-scheme Response; body is the byte sequence.
LocalResponse(kind, status, headers, body, ranged) ==
    [kind |-> kind, status |-> status, headers |-> headers, headersKind |-> "immutable",
     body |-> body, range_requested |-> ranged]

\* network_error()
LocalNetworkError == LocalResponse("error", 0, LocalHeaders(<<>>), <<>>, FALSE)

\* The fetch ended in a panic (`unreachable!()`, an assertion of Bytes::slice, an
\* arithmetic overflow in a build that checks it).
Panicked == LocalResponse("panic", 0, LocalHeaders(<<>>), <<>>, FALSE)

\* headers::Range::decode: only the "bytes=" prefix is checked.
RangeDecodes(value) == value.unit = "bytes"

\* headers: parse_bound.  Empty is Bound::Unbounded, a number n is Bound::Included(n);
\* Garbage is None.
ParseBound(token) == token

\* headers::Range::satisfiable_ranges(len), one range-spec: the pair of bounds it
\* yields, or <<>> when filter_map drops the spec.
SatisfiableSpec(spec, len) ==
    LET start == ParseBound(spec[1])
        end == ParseBound(spec[2])
    IN  IF start = Garbage \/ end = Garbage THEN <<>>
        ELSE IF start = Empty /\ end # Empty
        THEN IF len < end THEN <<>> ELSE <<len - end, Empty>>
        ELSE <<start, end>>

RECURSIVE FirstSatisfiable(_, _, _)
\* `range.satisfiable_ranges(len).next()`: the first spec from index i that is kept.
FirstSatisfiable(specs, i, len) ==
    IF i > Len(specs) THEN <<>>
    ELSE IF SatisfiableSpec(specs[i], len) # <<>> THEN SatisfiableSpec(specs[i], len)
    ELSE FirstSatisfiable(specs, i + 1, len)

\* Bytes::slice((start, end)) panics unless begin <= end <= len.
SliceInBounds(start, end, len) ==
    LET begin == IF start = Empty THEN 0 ELSE start
        stop == IF end = Empty THEN len ELSE end + 1
    IN  begin <= stop /\ stop <= len

\* Bytes::slice((start, end)) when it does not panic.
Slice(bytes, start, end) ==
    LET begin == IF start = Empty THEN 0 ELSE start
        stop == IF end = Empty THEN Len(bytes) ELSE end + 1
    IN  SubSeq(bytes, begin + 1, stop)

\* `format!("{start}-{end}/{len}")`
FormatContentRange(start, end, len) == start \o "-" \o end \o "/" \o len

\* get_ranged_bytes.  `range` is the sequence of Range values of the request
\* headers.  The result is [tag, status, ranged, bytes, contentRange]: tag "ok" for
\* Ok((status, ranged)), "err" for Err(network_error()), "panic".  `wraps` tells
\* whether the build lets `len - 1` wrap around at len = 0 instead of panicking.
GetRangedBytes(range, bytes, wraps) ==
    LET len == Len(bytes)
        Result(tag, status, ranged, b, cr) ==
            [tag |-> tag, status |-> status, ranged |-> ranged, bytes |-> b, contentRange |-> cr]
    IN  IF range = <<>> THEN Result("ok", 200, FALSE, bytes, <<>>)
        ELSE IF ~RangeDecodes(range[1]) THEN Result("err", 0, FALSE, bytes, <<>>)
        ELSE LET first == FirstSatisfiable(range[1].specs, 1, len) IN
             IF first = <<>> THEN Result("err", 0, FALSE, bytes, <<>>)
             ELSE IF ~SliceInBounds(first[1], first[2], len) THEN Result("panic", 0, FALSE, bytes, <<>>)
             ELSE IF first[1] = Empty THEN Result("panic", 0, FALSE, bytes, <<>>)
             ELSE IF first[2] = Empty /\ len = 0 /\ ~wraps THEN Result("panic", 0, FALSE, bytes, <<>>)
             ELSE LET end == IF first[2] # Empty THEN ToString(first[2])
                             ELSE IF len = 0 THEN "18446744073709551615"
                             ELSE ToString(len - 1)
                  IN  Result("ok", 206, TRUE, Slice(bytes, first[1], first[2]),
                             <<FormatContentRange(ToString(first[1]), end, ToString(len))>>)

\* file_fetch and blob_fetch after the bytes are at hand: the Response built
\* around the result of get_ranged_bytes.
RangedResponse(r, bytes, wraps) ==
    LET g == GetRangedBytes(r.range, bytes, wraps) IN
    CASE g.tag = "err" -> LocalNetworkError
      [] g.tag = "panic" -> Panicked
      [] OTHER ->
            LocalResponse("default", g.status,
                [n \in LocalHeaderNames |->
                    CASE n = "content-range" -> g.contentRange
                      [] n = "content-length" -> <<ToString(Len(g.bytes))>>
                      [] OTHER -> IF r.scheme = "blob" THEN <<r.blobType>> ELSE <<>>],
                g.bytes, g.ranged)

\* An about_blank_fetch that leaves the charset out of the Content-Type
\* (sensitivity of C19).
AboutBlankFetchWithoutCharset ==
    LocalResponse("default", 200, LocalHeaders("content-type" :> <<"text/html">>), <<>>, FALSE)

\* about_blank_fetch: Response::new_from_bytes over no bytes (status 200), with
\* an Immutable store that holds the Content-Type alone.
AboutBlankFetch ==
    LocalResponse("default", 200,
                  LocalHeaders("content-type" :> <<"text/html;charset=UTF-8">>), <<>>, FALSE)

\* scheme_fetch, "about" arm: `"about" if url.path() == "blank"`; any other about:
\* URL falls to `_ => network_error()`.
AboutFetch ==
    /\ rpc = "start"
    /\ rReq.scheme = "about"
    /\ rpc' = "done"
    /\ rResp' = IF rReq.path = "blank" THEN AboutBlankFetch ELSE LocalNetworkError
    /\ UNCHANGED <<rReq, rBytes>>
    /\ UNCHANGED <<mtVars, fVars, bVars, frVars>>

\* scheme_fetch, "blob" arm: blob_fetch.
BlobFetch ==
    /\ rpc = "start"
    /\ rReq.scheme = "blob"
    /\ rpc' = "done"
    /\ \E wraps \in BOOLEAN :
        rResp' = IF rReq.method # "GET" THEN LocalNetworkError
                 ELSE IF ~rReq.found THEN LocalNetworkError
                 ELSE RangedResponse(rReq, rBytes, wraps)
    /\ UNCHANGED <<rReq, rBytes>>
    /\ UNCHANGED <<mtVars, fVars, bVars, frVars>>

\* scheme_fetch, "file" arm: file_fetch up to `read(path).await`.
FileFetch ==
    /\ rpc = "start"
    /\ rReq.scheme = "file"
    /\ IF rReq.method # "GET"
       THEN rpc' = "done" /\ rResp' = LocalNetworkError
       ELSE rpc' = "read" /\ UNCHANGED rResp
    /\ UNCHANGED <<rReq, rBytes>>
    /\ UNCHANGED <<mtVars, fVars, bVars, frVars>>

\* file_fetch after `read(path).await`.
FileFetchRead ==
    /\ rpc = "read"
    /\ rpc' = "done"
    /\ \E wraps \in BOOLEAN :
        rResp' = IF ~rReq.found THEN LocalNetworkError
                 ELSE RangedResponse(rReq, rBytes, wraps)
    /\ UNCHANGED <<rReq, rBytes>>
    /\ UNCHANGED <<mtVars, fVars, bVars, frVars>>

\* The Range headers of the model's requests: none, or one value.
RangeHeaders ==
    {<<>>}
    \cup {<<[unit |-> "bytes", specs |-> <<<<a, b>>>>]>> : a \in BoundTokens, b \in BoundTokens}
    \cup {<<[unit |-> "bytes", specs |-> <<s, t>>]>> :
            s \in {<<Empty, MaxFileLen + 1>>, <<Garbage, 0>>}, t \in {<<0, 1>>, <<1, Empty>>}}
    \cup {<<[unit |-> "bytes", specs |-> <<<<0, 4>>>>]>>,
          <<[unit |-> "items", specs |-> <<<<0, 1>>>>]>>}

\* Requests for about: URLs: about:blank with and without a query, about:config.
AboutRequests ==
    [scheme : {"about"}, method : {"GET", "POST"}, found : {FALSE},
     blobType : {"text/plain"},
     range : {<<>>, <<[unit |-> "bytes", specs |-> <<<<0, 1>>>>]>>},
     path : {"blank", "config"}, query : {"", "x=1"}]

RInit ==
    /\ rpc = "start"
    /\ rReq \in [scheme : {"file", "blob"}, method : {"GET", "POST"}, found : BOOLEAN,
                 blobType : {"text/plain"}, range : RangeHeaders, path : {"/f"},
                 query : {""}]
                \cup AboutRequests
    /\ rBytes \in {Content(len) : len \in (0..MaxFileLen) \cup {10}}
    /\ rResp = <<>>

RNext ==
    \/ AboutFetch
    \/ BlobFetch
    \/ FileFetch
    \/ FileFetchRead

\* A local-scheme fetch about to start, the other parts at rest.
RangeInit == RInit /\ MtInit /\ FParked /\ BParked /\ FrParked

SpecRange == RangeInit /\ [][RNext]_vars

-----------------------------------------------------------------------------
(* Claims about byte ranges *)

\* The range a range-spec selects from `total` bytes, as <<start, end>>, or <<>>
\* when the spec is not satisfiable: "a-b" and "a-" need a < total and a <= b and
\* stop at the last byte; "-n" selects the last n bytes.
SelectedRange(spec, total) ==
    IF spec[1] = Garbage \/ spec[2] = Garbage THEN <<>>
    ELSE IF spec[1] = Empty
    THEN IF spec[2] = Empty \/ spec[2] = 0 \/ total = 0 THEN <<>>
         ELSE <<IF spec[2] > total THEN 0 ELSE total - spec[2], total - 1>>
    ELSE IF spec[1] >= total \/ (spec[2] # Empty /\ spec[2] < spec[1]) THEN <<>>
    ELSE <<spec[1], IF spec[2] = Empty \/ spec[2] >= total THEN total - 1 ELSE spec[2]>>

RECURSIVE FirstSelected(_, _, _)
FirstSelected(specs, i, total) ==
    IF i > Len(specs) THEN <<>>
    ELSE IF SelectedRange(specs[i], total) # <<>> THEN SelectedRange(specs[i], total)
    ELSE FirstSelected(specs, i + 1, total)

\* A file or blob fetch that got its bytes and carried a satisfiable Range header.
SatisfiableFetch ==
    /\ rpc = "done"
    /\ rReq.method = "GET"
    /\ rReq.found
    /\ rReq.range # <<>>
    /\ rReq.range[1].unit = "bytes"
    /\ FirstSelected(rReq.range[1].specs, 1, Len(rBytes)) # <<>>

\* C8: a local-scheme fetch with a satisfiable Range header answers 206 with
\* range_requested set, the bytes start..end of the first satisfiable range as
\* its body, and `Content-Range: bytes {start}-{end}/{total}`.
C8_RangedResponse ==
    SatisfiableFetch =>
        LET first == FirstSelected(rReq.range[1].specs, 1, Len(rBytes)) IN
        /\ rResp.kind = "default"
        /\ rResp.status = 206
        /\ rResp.range_requested
        /\ rResp.body = SubSeq(rBytes, first[1] + 1, first[2] + 1)
        /\ rResp.headers["content-range"] =
            <<"bytes " \o ToString(first[1]) \o "-" \o ToString(first[2]) \o "/"
                \o ToString(Len(rBytes))>>

\* A range-spec that no body of `total` bytes satisfies: it starts at or beyond
\* the end of the body ("a-b", "a-" with a >= total), or is a suffix longer than
\* the body ("-n" with n > total).
Unsatisfiable(spec, total) ==
    \/ spec[1] >= 0 /\ spec[1] >= total /\ spec[2] # Garbage
    \/ spec[1] = Empty /\ spec[2] >= 0 /\ spec[2] > total

\* A file or blob fetch that got its bytes and carried a Range header in bytes
\* with no range-spec but unsatisfiable ones.
UnsatisfiableFetch ==
    /\ rpc = "done"
    /\ rReq.scheme \in {"file", "blob"}
    /\ rReq.method = "GET"
    /\ rReq.found
    /\ rReq.range # <<>>
    /\ rReq.range[1].unit = "bytes"
    /\ \A i \in 1..Len(rReq.range[1].specs) : Unsatisfiable(rReq.range[1].specs[i], Len(rBytes))

\* C35: a local-scheme fetch with a Range header that is present and not
\* satisfiable ends in a network error, not in a 200 or 206 response and not in
\* a crash; and a response has range_requested set exactly when its status is 206.
C35_UnsatisfiableIsNetworkError ==
    /\ UnsatisfiableFetch => rResp = LocalNetworkError
    /\ (rpc = "done" /\ rResp.kind # "panic") => (rResp.range_requested <=> rResp.status = 206)

\* The response claimed for about:blank: not an error, a success status, the
\* Content-Type and no other header, no byte of body, an Immutable store.
IsBlankPage(resp, names) ==
    /\ resp.kind # "error"
    /\ resp.status >= 200 /\ resp.status < 300
    /\ \A n \in names :
        resp.headers[n] = IF n = "content-type" THEN <<"text/html;charset=UTF-8">> ELSE <<>>
    /\ resp.headersKind = "immutable"

-----------------------------------------------------------------------------
(* Claims about future_to_promise *)

\* C17: a future_to_promise call made when no future queue is active fails
\* without a completion handle, does not panic and leaves no scheduled
\* computation behind.
C17_NoLoopFailsCleanly ==
    \A i \in Spawns :
        (~hasFutures /\ bridge[i].ret # "idle") =>
            /\ bridge[i].ret = "None"
            /\ bridge[i].task = "absent"

-----------------------------------------------------------------------------
(* Claims about FileReader *)

\* C37: a read operation of a FileReader is rejected only while a previous read
\* is still in progress: the reader is in Loading only while the task of a read
\* has not run, and every call that was rejected found such a task.
C37_RejectedOnlyWhileLoading ==
    /\ frState = "Loading" => frTask # ""
    /\ \A i \in 1..Len(frLog) : ~frLog[i].ok => frLog[i].busy

-----------------------------------------------------------------------------
(* Claims about MicrotaskQueue *)

\* C1: tasks are run in strict FIFO order of their enqueue calls, and a task
\* enqueued by a running task during a run_jobs drain has been run by that same
\* run_jobs call once that call has returned.
C1_FifoAndSameDrain ==
    /\ IsPrefix(runLog, enqLog)
    /\ \A t \in Tasks :
        (enqIn[t] # 0 /\ retRes[enqIn[t]] \in {"ok", "err"}) => ranIn[t] = enqIn[t]

\* C18: a run_jobs call made from inside a running microtask, while a drain is in
\* progress, returns at once: it runs no task and leaves the queue, the draining
\* flag and the drain in progress as they are; at no moment is there more than
\* one drain loop.
C18_NestedRunJobsReturns ==
    [][/\ Len(frames') <= 1
       /\ (frames # <<>> /\ calls' = calls + 1) =>
            /\ retRes'[calls + 1] = "skip"
            /\ queue' = queue
            /\ draining' = draining
            /\ runLog' = runLog
            /\ frames' = frames]_vars

\* C18 witness: a nested call returned at once while tasks were waiting in the
\* queue, and the drain in progress is still running its task.
C18_Witness ==
    /\ frames # <<>>
    /\ frames[Len(frames)].pc = "task"
    /\ queue # <<>>
    /\ draining
    /\ \E c \in Calls : retRes[c] = "skip"

\* C22: the draining flag is set only while a run_jobs call is executing its
\* drain loop: once the call that set it has returned, with Ok or with the error
\* of a task, the flag is clear.
C22_DrainingOnlyInDrain ==
    draining => frames # <<>>

\* C23: a task at the head of the queue while the host still has run_jobs calls
\* to make is eventually run, whatever happened to the tasks run before it: it
\* is not stranded in the queue.
C23_QueuedTaskRuns ==
    \A t \in Tasks :
        (frames = <<>> /\ queue # <<>> /\ Head(queue) = t /\ calls < MaxCalls)
        ~> (ranIn[t] # 0)

\* C39: the engine's view of the queue agrees with the queue: while the queue is
\* not empty the engine's latest notification is "may not be empty"; a step that
\* makes the empty queue non-empty leaves the engine notified of pending work; and
\* the engine is told "empty" only by the step that ends a drain (the flag is
\* cleared and the call returns Ok), the queue being empty at that moment.
C39_HostViewConsistent ==
    /\ [](queue # <<>> => ~hostEmpty)
    /\ [][/\ (queue = <<>> /\ queue' # <<>>) => ~hostEmpty'
          /\ (~hostEmpty /\ hostEmpty') =>
                /\ queue' = <<>>
                /\ draining /\ ~draining'
                /\ \E c \in Calls : retRes[c] = "none" /\ retRes'[c] = "ok"
          /\ \A c \in Calls : (retRes[c] = "none" /\ retRes'[c] = "ok") =>
                hostEmpty' /\ queue' = <<>>]_vars

\* C39 witness: a drain has ended with the engine told "empty", and a task
\* enqueued afterwards has the engine told "may not be empty" again.
C39_Witness ==
    /\ \E c \in Calls : retRes[c] = "ok"
    /\ runLog # <<>>
    /\ queue # <<>>
    /\ ~hostEmpty

\* C2: when a microtask fails during run_jobs the drain is not stopped: at the
\* step in which a run_jobs call returns the error, the queue has been fully
\* drained.
C2_ErrorAfterFullDrain ==
    [][\A c \in Calls : (retRes[c] # "err" /\ retRes'[c] = "err") => queue' = <<>>]_vars


=============================================================================
